---- MODULE Spec2Model ----
(***************************************************************************)
(* Model of the scheduling core of Smart-Tender-Search:                    *)
(*   centralSchedulerLambda.py              (Scheduler Sweep, Evaluator)   *)
(*   evenbridge_based_on_user_preferences.py (Rule Lifecycle Manager)      *)
(*   CheckUserRole.py                       (Reconciliation Sweeper)       *)
(*                                                                         *)
(* Strings.  A Python str is modelled as a sequence of tokens.  A token is *)
(* an indivisible piece of text: a word (a day name, a marker), one of the *)
(* separators " v ", ", " and ":", or one character of a time.  The Czech  *)
(* words are written without diacritics (the module is ASCII): "Streda"    *)
(* stands for the source's word for Wednesday, "Jednou denne" and          *)
(* "Kazdy den" for the two daily markers.  Python's `in`, str.split and    *)
(* int are computed on the token sequences by the operators below.         *)
(***************************************************************************)
EXTENDS Integers, Sequences, FiniteSets, TLC

VARIABLES
    \* ---- Due-Time Evaluator called on its own (is_scheduled_time) ----
    current_time,         \* [weekday, hour, minute]: the instant handed to the evaluator
    schedule_preference,  \* the schedule string handed to the evaluator
    eval_out,             \* Pending, or the outcome [exc, ret] of the call
    \* ---- the services the handlers talk to ----
    table,                \* the UserPreferences table: a set of items
    queue,                \* the UserTaskQueue: the message bodies sent, in order
    utc_clock,            \* [weekday, hour, minute] of datetime.now(timezone.utc)
    \* ---- one invocation of centralSchedulerLambda.lambda_handler ----
    sw_pc,                \* "idle", "scan", "loop", "send", "done"
    sw_now,               \* the handler's `now`
    sw_items,             \* response['Items'] of the scan
    sw_i,                 \* position of the for loop in sw_items
    sw_task,              \* task_details of the item being sent
    sw_sends,             \* successful_sends
    sw_failed,            \* the user ids whose send failure was printed (line 60)
    sw_result,            \* what the invocation returned, or the exception that ended it
    \* ---- EventBridge, and the invocations of the rule rebuild handler ----
    rules,                \* the rules of the event bus: a set of rules with their targets
    rb_pc,                \* "idle", "list", "clear", "delete", "items", "entries", "targets", "done"
    rb_n,                 \* the number of this rebuild (0: none yet)
    rb_pre,               \* the rules that existed when this rebuild was invoked
    rb_scan,              \* the items the scan of this rebuild returned (kept when it is over)
    rb_names,             \* the names list_rules returned that clear_all_rules has yet to reach
    rb_rule,              \* rule_name of the rule clear_all_rules is at
    rb_items,             \* the items of the scan that the for loop has yet to reach
    rb_item,              \* the item being processed
    rb_entries,           \* days_with_times of the item being processed
    rb_k,                 \* position in rb_entries
    rb_name,              \* rule_name of the rule just put
    rb_result,            \* what the rebuild returned
    \* ---- one invocation of CheckUserRole.lambda_handler ----
    rc_pc,                \* "idle", "query", "delete200", "delete404", "done"
    rc_user_id,           \* the loop variable user_id
    rc_answer,            \* what the role authority answered for rc_user_id
    rc_table0,            \* the table when the run was invoked
    rc_log,               \* for each id done that had an item: the answer, and how delete_item went
    rc_queries,           \* the ids the authority was asked about in this run, in order
    rc_result,            \* what the run returned, or the exception that ended it
    \* ---- the clock hours, and the Sweep invoked a second time ----
    epoch,                \* the number of clock hours begun since the start
    sw_id,                \* the number of the invocation the sw_ locals belong to (0: none)
    sw_slot,              \* the clock hour (epoch) in which that invocation was invoked
    sw_parked,            \* the locals of the other Sweep invocation, while this one steps
    sw_log,               \* for each message sent: the invocation, its clock hour, the user_id
    \* ---- the delivery of the queue, and sqsWorkerLambda.lambda_handler ----
    wk_pc,                \* "idle", "loop", "done"
    wk_records,           \* event['Records']: the bodies of the batch, hidden from the queue
    wk_i,                 \* position of the for loop in wk_records
    wk_result,            \* what the invocation returned, or the exception that ended it
    wk_fails,             \* how many calls of lambda_client.invoke have raised so far
    invocations,          \* the payloads of the asynchronous invocations of the Search Worker
    \* ---- the rebuild handler invoked while another invocation of it is running ----
    rb_parked,            \* the locals of the other rebuild invocation, while this one steps
    rb_overlap,           \* whether an invocation has taken a step while the other was not over
    \* ---- main_function.py: DataProcessor.clean_and_split_keywords called on its own ----
    keyword_string,       \* the argument: the stored keyword string
    kw_pc,                \* "idle", "done"
    keywords              \* the list it returned

eval_vars  == <<current_time, schedule_preference, eval_out>>
env_vars   == <<table, queue, utc_clock>>
sweep_vars == <<sw_pc, sw_now, sw_items, sw_i, sw_task, sw_sends, sw_failed, sw_result>>

rebuild_vars == <<rules, rb_pc, rb_n, rb_pre, rb_scan, rb_names, rb_rule, rb_items, rb_item,
                  rb_entries, rb_k, rb_name, rb_result>>

recon_vars == <<rc_pc, rc_user_id, rc_answer, rc_table0, rc_log, rc_queries, rc_result>>

sweeps_vars == <<epoch, sw_id, sw_slot, sw_parked, sw_log>>

worker_vars == <<wk_pc, wk_records, wk_i, wk_result, wk_fails, invocations>>

rebuilds_vars == <<rb_parked, rb_overlap>>

keywords_vars == <<keyword_string, kw_pc, keywords>>

vars == <<eval_vars, env_vars, sweep_vars, rebuild_vars, recon_vars, sweeps_vars, worker_vars,
          rebuilds_vars, keywords_vars>>

\* what the steps of one handler leave alone
eval_frame    == <<env_vars, sweep_vars, rebuild_vars, recon_vars, sweeps_vars, worker_vars,
                   rebuilds_vars, keywords_vars>>
sweep_frame   == <<eval_vars, rebuild_vars, recon_vars, worker_vars, epoch, sw_parked,
                   rebuilds_vars, keywords_vars>>
rebuild_frame == <<eval_vars, sweep_vars, env_vars, recon_vars, sweeps_vars, worker_vars,
                   rebuilds_vars, keywords_vars>>
recon_frame   == <<eval_vars, sweep_vars, rebuild_vars, queue, utc_clock, sweeps_vars,
                   worker_vars, rebuilds_vars, keywords_vars>>
worker_frame  == <<eval_vars, sweep_vars, rebuild_vars, recon_vars, sweeps_vars, table,
                   utc_clock, rebuilds_vars, keywords_vars>>

-----------------------------------------------------------------------------
(* Bounds of the model *)

\* schedule strings of at most this many ", "-separated entries are drawn
MaxEntries == 2

\* the table holds at most this many items
MaxItems == 2

\* the rebuild handler is invoked at most this many times, one after the other
MaxRebuilds == 2

\* random.randint draws from this many of its values
NumRandom == 2

\* the clock is followed over this many further clock hours
MaxHours == 1

\* the queue hands at most this many messages to one Worker Invoker invocation
MaxBatch == 2

\* lambda_client.invoke raises at most this many times
MaxFailures == 2

-----------------------------------------------------------------------------
(* Python string operations on token sequences *)

Min(S) == CHOOSE m \in S : \A n \in S : m <= n
Max(S) == CHOOSE m \in S : \A n \in S : m >= n

\* x in s  (substring test)
contains(s, x) ==
    \E i \in 1..(Len(s) - Len(x) + 1) : SubSeq(s, i, i + Len(x) - 1) = x

\* s.split(sep): the pieces of s between the successive occurrences of sep
RECURSIVE split(_, _)
split(s, sep) ==
    LET hits == {i \in 1..(Len(s) - Len(sep) + 1) : SubSeq(s, i, i + Len(sep) - 1) = sep}
    IN  IF hits = {}
        THEN <<s>>
        ELSE LET i == Min(hits)
             IN  <<SubSeq(s, 1, i - 1)>> \o split(SubSeq(s, i + Len(sep), Len(s)), sep)

\* sep.join(parts)
RECURSIVE join(_, _)
join(sep, parts) ==
    IF Len(parts) = 0 THEN <<>>
    ELSE IF Len(parts) = 1 THEN parts[1]
    ELSE parts[1] \o sep \o join(sep, Tail(parts))

DigitValue ==
    [c \in {"0", "1", "2", "3", "4", "5", "6", "7", "8", "9"} |->
        CASE c = "0" -> 0 [] c = "1" -> 1 [] c = "2" -> 2 [] c = "3" -> 3
          [] c = "4" -> 4 [] c = "5" -> 5 [] c = "6" -> 6 [] c = "7" -> 7
          [] c = "8" -> 8 [] c = "9" -> 9]

\* int(s) raises ValueError unless s is a non-empty run of digits
int_raises(s) == Len(s) = 0 \/ \E i \in 1..Len(s) : s[i] \notin DOMAIN DigitValue

\* int(s) for a run of digits: its decimal value
RECURSIVE int(_)
int(s) ==
    IF Len(s) = 0 THEN 0
    ELSE 10 * int(SubSeq(s, 1, Len(s) - 1)) + DigitValue[s[Len(s)]]

DigitText == <<"0", "1", "2", "3", "4", "5", "6", "7", "8", "9">>

\* str(n) for an int n >= 0: its decimal text, as one token
RECURSIVE str(_)
str(n) == IF n < 10 THEN DigitText[n + 1] ELSE str(n \div 10) \o DigitText[(n % 10) + 1]

-----------------------------------------------------------------------------
(* centralSchedulerLambda.py: the Due-Time Evaluator *)

SEP_V     == <<" v ">>     \* the literal ' v '
SEP_COMMA == <<", ">>      \* the literal ', '
SEP_COLON == <<":">>       \* the literal ':'
JEDNOU_DENNE == <<"Jednou denne">>   \* the sweep's daily marker

\* the hour at which a daily schedule is due in the sweep
DailyHour == 12

day_mapping ==
    [d \in {"Pondeli", "Utery", "Streda", "Ctvrtek", "Patek", "Sobota", "Nedele"} |->
        CASE d = "Pondeli" -> 0 [] d = "Utery"  -> 1 [] d = "Streda" -> 2
          [] d = "Ctvrtek" -> 3 [] d = "Patek"  -> 4 [] d = "Sobota" -> 5
          [] d = "Nedele"  -> 6]

\* the key of day_mapping that a str equals, if any (a key is one word)
in_day_mapping(day_name) == Len(day_name) = 1 /\ day_name[1] \in DOMAIN day_mapping

Returns(b) == [exc |-> "none", ret |-> b]
Raises(e)  == [exc |-> e, ret |-> FALSE]

\* mutant: the minute of the schedule is compared as well
is_scheduled_time_minutes(now, schedule) ==
    IF contains(schedule, JEDNOU_DENNE)
    THEN Returns(now.hour = DailyHour)
    ELSE LET schedule_parts == split(schedule, SEP_V)
         IN  IF Len(schedule_parts) = 2
             THEN LET day_name == schedule_parts[1]
                      time_parts == split(schedule_parts[2], SEP_COLON)
                  IN  IF int_raises(time_parts[1])
                      THEN Raises("ValueError")
                      ELSE Returns(/\ in_day_mapping(day_name)
                                   /\ now.weekday = day_mapping[day_name[1]]
                                   /\ now.hour = int(time_parts[1])
                                   /\ Len(time_parts) > 1
                                   /\ ~int_raises(time_parts[2])
                                   /\ now.minute = int(time_parts[2]))
             ELSE Returns(FALSE)

\* mutant: the daily marker is honoured only when it is the whole string
is_scheduled_time_exact_marker(now, schedule) ==
    IF schedule = JEDNOU_DENNE
    THEN Returns(now.hour = DailyHour)
    ELSE LET schedule_parts == split(schedule, SEP_V)
         IN  IF Len(schedule_parts) = 2
             THEN LET day_name == schedule_parts[1]
                      time_parts == split(schedule_parts[2], SEP_COLON)
                  IN  IF int_raises(time_parts[1])
                      THEN Raises("ValueError")
                      ELSE Returns(/\ in_day_mapping(day_name)
                                   /\ now.weekday = day_mapping[day_name[1]]
                                   /\ now.hour = int(time_parts[1]))
             ELSE Returns(FALSE)

\* mutant: an unknown day name falls back to "every day", as day_to_cron does
is_scheduled_time_fallback(now, schedule) ==
    IF contains(schedule, JEDNOU_DENNE)
    THEN Returns(now.hour = DailyHour)
    ELSE LET schedule_parts == split(schedule, SEP_V)
         IN  IF Len(schedule_parts) = 2
             THEN LET day_name == schedule_parts[1]
                      time_parts == split(schedule_parts[2], SEP_COLON)
                  IN  IF int_raises(time_parts[1])
                      THEN Raises("ValueError")
                      ELSE Returns(/\ in_day_mapping(day_name)
                                        => now.weekday = day_mapping[day_name[1]]
                                   /\ now.hour = int(time_parts[1]))
             ELSE Returns(FALSE)

\* is_scheduled_time(current_time, schedule_preference): what the call returns,
\* or the exception it raises (int() of a non-numeric hour)
is_scheduled_time(now, schedule) ==
    IF contains(schedule, JEDNOU_DENNE)
    THEN Returns(now.hour = DailyHour)
    ELSE LET schedule_parts == split(schedule, SEP_V)
         IN  IF Len(schedule_parts) = 2
             THEN LET day_name == schedule_parts[1]
                      time_parts == split(schedule_parts[2], SEP_COLON)
                  IN  IF int_raises(time_parts[1])
                      THEN Raises("ValueError")
                      ELSE Returns(/\ in_day_mapping(day_name)
                                   /\ now.weekday = day_mapping[day_name[1]]
                                   /\ now.hour = int(time_parts[1]))
             ELSE Returns(FALSE)

-----------------------------------------------------------------------------
(* The UserPreferences table and the UserTaskQueue *)

\* mutant: the item is added beside the one the table holds for the key
put_item_beside(t, item) == t \cup {item}

\* table.put_item(Item=item): the item replaces the one with its key
put_item(t, item) == {r \in t : r.user_id # item.user_id} \cup {item}

\* table.delete_item(Key={'user_id': key})
delete_item(t, key) == {r \in t : r.user_id # key}

\* the orders in which a scan may return the items of the table
scan(t) ==
    {items \in [1..Cardinality(t) -> t] :
        \A i, j \in 1..Cardinality(t) : items[i] = items[j] => i = j}

\* json.dumps of a dict: its keys and values in insertion order
json_dumps(keys, d) == [k \in 1..Len(keys) |-> <<keys[k], d[keys[k]]>>]

\* json.loads of such a text: the dict again
json_loads(text) ==
    [k \in {text[i][1] : i \in 1..Len(text)} |->
        LET i == CHOOSE i \in 1..Len(text) : text[i][1] = k IN text[i][2]]

\* sqs.send_message(QueueUrl=queue_url, MessageBody=body)
send_message(q, body) == Append(q, body)

-----------------------------------------------------------------------------
(* DynamoDB_handler.py: the intake handler (lambda_handler) *)

\* lines 24-32, 36-48: the item built from the fields of the form; the free
\* text fields are told apart by their field, their user and the submission
FormItem(user_id, frekvence_zasilani, submission) ==
    [user_id     |-> user_id,
     user_email  |-> <<"user_email", user_id>>,
     user_role   |-> <<"user_role", user_id>>,
     preferences |-> [druh_zakazek                |-> <<"druh_zakazek", user_id, submission>>,
                      klicova_slova               |-> <<"klicova_slova", user_id, submission>>,
                      frekvence_zasilani          |-> frekvence_zasilani,
                      email_pro_zasilani_vysledku |-> <<"email_pro_zasilani_vysledku", user_id>>,
                      popis_firmy                 |-> <<"popis_firmy", user_id, submission>>]]

\* lines 10-54: one submission of the form is written with put_item
IntakePut(user_id, frekvence_zasilani, submission) ==
    /\ FormItem(user_id, frekvence_zasilani, submission) \notin table
    /\ table' = put_item(table, FormItem(user_id, frekvence_zasilani, submission))
    /\ UNCHANGED <<eval_vars, queue, utc_clock, sweep_vars, rebuild_vars, recon_vars,
                   sweeps_vars, worker_vars, rebuilds_vars, keywords_vars>>

-----------------------------------------------------------------------------
(* centralSchedulerLambda.py: the Scheduler Sweep (lambda_handler) *)

\* timedelta(hours=2)
UtcOffsetHours == 2

\* datetime.now(timezone.utc) + timedelta(hours=2)
now_utc_plus_2(utc) ==
    LET h == utc.hour + UtcOffsetHours
    IN  [weekday |-> (utc.weekday + (h \div 24)) % 7,
         hour    |-> h % 24,
         minute  |-> utc.minute]

task_keys == <<"user_id", "email", "keywords", "description", "role", "frekvence_zasilani">>

\* mutant: the account's e-mail is taken instead of the delivery address
task_details_account_email(item) ==
    [user_id            |-> item.user_id,
     email              |-> item.user_email,
     keywords           |-> item.preferences.klicova_slova,
     description        |-> item.preferences.popis_firmy,
     role               |-> item.user_role,
     frekvence_zasilani |-> item.preferences.frekvence_zasilani]

\* the task_details dict built from a due item
task_details(item) ==
    [user_id            |-> item.user_id,
     email              |-> item.preferences.email_pro_zasilani_vysledku,
     keywords           |-> item.preferences.klicova_slova,
     description        |-> item.preferences.popis_firmy,
     role               |-> item.user_role,
     frekvence_zasilani |-> item.preferences.frekvence_zasilani]

NoTask   == [user_id |-> "", email |-> <<>>, keywords |-> <<>>, description |-> <<>>,
             role |-> <<>>, frekvence_zasilani |-> <<>>]
NoResult == [statusCode |-> 0, body |-> <<>>, exc |-> "none"]

\* line 26: now is fixed for the whole invocation
SweepInvoke ==
    /\ sw_pc = "idle"
    /\ sw_now' = now_utc_plus_2(utc_clock)
    /\ sw_pc' = "scan"
    /\ sw_id' = sw_parked.id + 1
    /\ sw_slot' = epoch
    /\ UNCHANGED <<sweep_frame, sw_log, env_vars, sw_items, sw_i, sw_task, sw_sends, sw_failed, sw_result>>

\* mutant: the items of the previous invocation's scan are kept and used again
SweepScanOk_cached ==
    /\ sw_pc = "scan"
    /\ \E items \in (IF sw_parked.pc = "done" THEN {sw_parked.items} ELSE scan(table)) :
          sw_items' = items
    /\ sw_i' = 1
    /\ sw_sends' = 0
    /\ sw_pc' = "loop"
    /\ UNCHANGED <<sweep_frame, sw_id, sw_slot, sw_log, env_vars, sw_now, sw_task, sw_failed, sw_result>>

\* lines 28-31, 36: the scan answers with every item, in some order
SweepScanOk ==
    /\ sw_pc = "scan"
    /\ \E items \in scan(table) : sw_items' = items
    /\ sw_i' = 1
    /\ sw_sends' = 0
    /\ sw_pc' = "loop"
    /\ UNCHANGED <<sweep_frame, sw_id, sw_slot, sw_log, env_vars, sw_now, sw_task, sw_failed, sw_result>>

\* mutant: a failed scan is taken for an empty answer and the handler goes on
SweepScanFail_swallowed ==
    /\ sw_pc = "scan"
    /\ sw_items' = <<>>
    /\ sw_i' = 1
    /\ sw_sends' = 0
    /\ sw_pc' = "loop"
    /\ UNCHANGED <<sweep_frame, sw_id, sw_slot, sw_log, env_vars, sw_now, sw_task, sw_failed, sw_result>>

\* lines 32-34: the scan raises
SweepScanFail ==
    /\ sw_pc = "scan"
    /\ sw_result' = [statusCode |-> 500, body |-> <<"Failed to scan DynamoDB">>,
                     exc |-> "none"]
    /\ sw_pc' = "done"
    /\ UNCHANGED <<sweep_frame, sw_id, sw_slot, sw_log, env_vars, sw_now, sw_items, sw_i, sw_task, sw_sends, sw_failed>>

\* mutant: the schedule an earlier invocation saw for the user is evaluated
SweepEvaluate_remembers ==
    /\ sw_pc = "loop"
    /\ sw_i <= Len(sw_items)
    /\ LET item == sw_items[sw_i]
           seen == {x \in {sw_parked.items[j] : j \in 1..Len(sw_parked.items)} :
                        x.user_id = item.user_id}
           used == IF seen # {} THEN CHOOSE x \in seen : TRUE ELSE item
           due  == is_scheduled_time(sw_now, used.preferences.frekvence_zasilani)
       IN  IF due.exc # "none"
           THEN /\ sw_result' = [statusCode |-> 0, body |-> <<>>, exc |-> due.exc]
                /\ sw_pc' = "done"
                /\ UNCHANGED <<sw_i, sw_task>>
           ELSE IF due.ret
           THEN /\ sw_task' = task_details(item)
                /\ sw_pc' = "send"
                /\ UNCHANGED <<sw_i, sw_result>>
           ELSE /\ sw_i' = sw_i + 1
                /\ UNCHANGED <<sw_pc, sw_task, sw_result>>
    /\ UNCHANGED <<sweep_frame, sw_id, sw_slot, sw_log, env_vars, sw_now, sw_items, sw_sends, sw_failed>>

\* lines 37-49: the next item is evaluated; a due item gets its task_details;
\* an exception of is_scheduled_time is caught nowhere and ends the invocation
SweepEvaluate ==
    /\ sw_pc = "loop"
    /\ sw_i <= Len(sw_items)
    /\ LET item == sw_items[sw_i]
           due  == is_scheduled_time(sw_now, item.preferences.frekvence_zasilani)
       IN  IF due.exc # "none"
           THEN /\ sw_result' = [statusCode |-> 0, body |-> <<>>, exc |-> due.exc]
                /\ sw_pc' = "done"
                /\ UNCHANGED <<sw_i, sw_task>>
           ELSE IF due.ret
           THEN /\ sw_task' = task_details(item)
                /\ sw_pc' = "send"
                /\ UNCHANGED <<sw_i, sw_result>>
           ELSE /\ sw_i' = sw_i + 1
                /\ UNCHANGED <<sw_pc, sw_task, sw_result>>
    /\ UNCHANGED <<sweep_frame, sw_id, sw_slot, sw_log, env_vars, sw_now, sw_items, sw_sends, sw_failed>>

\* mutant: the Sweep notes in the item that it was dispatched
SweepSendOk_marks_item ==
    /\ sw_pc = "send"
    /\ queue' = send_message(queue, json_dumps(task_keys, sw_task))
    /\ table' = {IF r.user_id = sw_task.user_id
                 THEN [r EXCEPT !.preferences.popis_firmy = <<"dispatched">>]
                 ELSE r : r \in table}
    /\ sw_log' = Append(sw_log, [id |-> sw_id, slot |-> sw_slot, user_id |-> sw_task.user_id])
    /\ sw_sends' = sw_sends + 1
    /\ sw_i' = sw_i + 1
    /\ sw_task' = NoTask
    /\ sw_pc' = "loop"
    /\ UNCHANGED <<sweep_frame, sw_id, sw_slot, utc_clock, sw_now, sw_items, sw_failed,
                   sw_result>>

\* mutant: the loop does not move on after a send, the item is sent again
SweepSendOk_resend ==
    /\ sw_pc = "send"
    /\ queue' = send_message(queue, json_dumps(task_keys, sw_task))
    /\ sw_log' = Append(sw_log, [id |-> sw_id, slot |-> sw_slot, user_id |-> sw_task.user_id])
    /\ sw_sends' = sw_sends + 1
    /\ sw_task' = NoTask
    /\ sw_pc' = "loop"
    /\ UNCHANGED <<sweep_frame, sw_id, sw_slot, table, utc_clock, sw_now, sw_items, sw_i,
                   sw_failed, sw_result>>

\* lines 51-58: the message is sent
SweepSendOk ==
    /\ sw_pc = "send"
    /\ queue' = send_message(queue, json_dumps(task_keys, sw_task))
    /\ sw_log' = Append(sw_log, [id |-> sw_id, slot |-> sw_slot, user_id |-> sw_task.user_id])
    /\ sw_sends' = sw_sends + 1
    /\ sw_i' = sw_i + 1
    /\ sw_task' = NoTask
    /\ sw_pc' = "loop"
    /\ UNCHANGED <<sweep_frame, sw_id, sw_slot, table, utc_clock, sw_now, sw_items, sw_failed, sw_result>>

\* mutant: a failed send is counted as well
SweepSendFail_counted ==
    /\ sw_pc = "send"
    /\ sw_failed' = sw_failed \cup {sw_task.user_id}
    /\ sw_sends' = sw_sends + 1
    /\ sw_i' = sw_i + 1
    /\ sw_task' = NoTask
    /\ sw_pc' = "loop"
    /\ UNCHANGED <<sweep_frame, sw_id, sw_slot, sw_log, env_vars, sw_now, sw_items, sw_result>>

\* lines 59-60: send_message raises; the failure is printed and the loop goes on
SweepSendFail ==
    /\ sw_pc = "send"
    /\ sw_failed' = sw_failed \cup {sw_task.user_id}
    /\ sw_i' = sw_i + 1
    /\ sw_task' = NoTask
    /\ sw_pc' = "loop"
    /\ UNCHANGED <<sweep_frame, sw_id, sw_slot, sw_log, env_vars, sw_now, sw_items, sw_sends, sw_result>>

\* line 62: the loop is over
SweepReturn ==
    /\ sw_pc = "loop"
    /\ sw_i > Len(sw_items)
    /\ sw_result' = [statusCode |-> 200,
                     body |-> <<"Messages successfully sent: ", sw_sends>>,
                     exc |-> "none"]
    /\ sw_pc' = "done"
    /\ UNCHANGED <<sweep_frame, sw_id, sw_slot, sw_log, env_vars, sw_now, sw_items, sw_i, sw_task, sw_sends, sw_failed>>

-----------------------------------------------------------------------------
(* EventBridge, as evenbridge_based_on_user_preferences.py uses it.  A rule  *)
(* is [Name, ScheduleExpression, State, Targets, born]; born is the number  *)
(* of the rebuild whose put_rule created it (0: it was there before), which *)
(* tells a rule from a later rule of the same name.                         *)

rule_named(rs, name) == CHOOSE r \in rs : r.Name = name

exists_rule(rs, name) == \E r \in rs : r.Name = name

\* mutant: list_rules leaves out the rules that have no target
list_rules_with_targets(rs) == {r.Name : r \in {x \in rs : x.Targets # {}}}

\* eventbridge.list_rules()['Rules']: the names of the rules
list_rules(rs) == {r.Name : r \in rs}

\* eventbridge.put_rule(Name, ScheduleExpression, State='ENABLED'): creates the
\* rule, or updates the rule of that name and keeps its targets
put_rule(rs, name, cron, n) ==
    IF exists_rule(rs, name)
    THEN {IF r.Name = name
          THEN [r EXCEPT !.ScheduleExpression = cron, !.State = "ENABLED"]
          ELSE r : r \in rs}
    ELSE rs \cup {[Name |-> name, ScheduleExpression |-> cron, State |-> "ENABLED",
                   Targets |-> {}, born |-> n]}

\* eventbridge.put_targets(Rule, Targets=[t]): adds t, or replaces the target of its Id
put_targets(rs, name, t) ==
    {IF r.Name = name
     THEN [r EXCEPT !.Targets = {x \in r.Targets : x.Id # t.Id} \cup {t}]
     ELSE r : r \in rs}

\* eventbridge.remove_targets(Rule, Ids)
remove_targets(rs, name, ids) ==
    {IF r.Name = name
     THEN [r EXCEPT !.Targets = {x \in r.Targets : x.Id \notin ids}]
     ELSE r : r \in rs}

\* eventbridge.delete_rule(Name)
delete_rule(rs, name) == {r \in rs : r.Name # name}

-----------------------------------------------------------------------------
(* evenbridge_based_on_user_preferences.py: the Rule Lifecycle Manager *)

GREGI     == <<"gregi">>          \* the reserved marker
KAZDY_DEN == <<"Kazdy den">>      \* the lifecycle's daily marker

lambda_arn == "arn:aws:lambda:eu-north-1:462197742027:function:EU_Czech_Tender_Search"

\* str.lower(), token by token
lower(s) ==
    [i \in 1..Len(s) |->
        CASE s[i] = "GREGI"  -> "gregi"
          [] s[i] = "Gregi"  -> "gregi"
          [] s[i] = "My-"    -> "my-"
          [] s[i] = "-Rule"  -> "-rule"
          [] OTHER           -> s[i]]

\* mutant: the marker is looked for without lower()
is_protected_case_sensitive(rule_name) == contains(rule_name, GREGI)

\* line 45: 'gregi' in rule_name.lower()
is_protected(rule_name) == contains(lower(rule_name), GREGI)

\* mutant: the loop of clear_all_rules leaves out one rule of the list
rules_to_clear_but_one(names) ==
    IF \E n \in names : ~is_protected(n)
    THEN names \ {CHOOSE n \in names : ~is_protected(n)}
    ELSE names

\* lines 42-43: clear_all_rules goes through every rule that list_rules returned
rules_to_clear(names) == names

\* random.randint(1000, 9999)
RandLo == 1000
RandHi == 9999
RandomNumbers == {n \in RandLo..RandHi : n < RandLo + NumRandom}

\* line 72: f"rule_for_user_{user_id}_{random_number}"
rule_name(user_id, random_number) == <<"rule_for_user_", user_id, "_", str(random_number)>>

\* line 85: the one target of a rule
target(user_id) ==
    [Id    |-> <<"target_", user_id>>,
     Arn   |-> lambda_arn,
     Input |-> json_dumps(<<"user_id">>, [user_id |-> user_id])]

\* the default of day_to_cron_map.get (line 117)
DefaultCron == "cron(00 10 ? * * *)"

\* mutant: the day name is looked up without regard to case
day_to_cron_any_case(day_name) ==
    IF  Len(day_name) = 1 /\ day_name[1] \in {"Streda", "streda"}
    THEN "cron(00 10 ? * 4 *)"
    ELSE DefaultCron

\* lines 106-117: day_to_cron
day_to_cron(day_name) ==
    IF  Len(day_name) = 1 /\ day_name[1] \in DOMAIN day_mapping
    THEN CASE day_name[1] = "Pondeli" -> "cron(00 10 ? * 2 *)"
           [] day_name[1] = "Utery"   -> "cron(00 10 ? * 3 *)"
           [] day_name[1] = "Streda"  -> "cron(00 10 ? * 4 *)"
           [] day_name[1] = "Ctvrtek" -> "cron(00 10 ? * 5 *)"
           [] day_name[1] = "Patek"   -> "cron(00 10 ? * 6 *)"
           [] day_name[1] = "Sobota"  -> "cron(00 10 ? * 7 *)"
           [] day_name[1] = "Nedele"  -> "cron(00 10 ? * 1 *)"
    ELSE DefaultCron

\* line 95: the cron expression of an entry with the lifecycle's daily marker
DailyCron == "cron(00 10 * * ? *)"

\* lines 90-104: the cron expression process_day_with_time hands to create_eventbridge_rule
cron_of_entry(day_with_time) ==
    IF contains(day_with_time, KAZDY_DEN)
    THEN DailyCron
    ELSE day_to_cron(split(day_with_time, SEP_V)[1])

\* mutant: only a schedule of a single entry is processed
days_with_times_single(preferences) ==
    LET schedule == preferences.frekvence_zasilani
    IN  IF schedule # <<>> /\ ~contains(schedule, SEP_COMMA) THEN <<schedule>> ELSE <<>>

\* lines 62-66: the entries process_user_preferences goes through
days_with_times(preferences) ==
    LET schedule == preferences.frekvence_zasilani
    IN  IF schedule # <<>> THEN split(schedule, SEP_COMMA) ELSE <<>>

NoRebuildResult == [statusCode |-> 0, body |-> ""]
NoItem == [user_id |-> "", preferences |-> [frekvence_zasilani |-> <<>>]]

\* The two loops of the handler go through a list whose order the service
\* chooses (list_rules, scan).  The part of the list that lies ahead is kept
\* as a set, and each turn of the loop takes any element of it: the same
\* runs as with every order of the list.

\* the locals of a rebuild that is over
RebuildLocalsCleared ==
    /\ rb_names' = {}
    /\ rb_rule' = <<>>
    /\ rb_items' = {}
    /\ rb_item' = NoItem
    /\ rb_entries' = <<>>
    /\ rb_k' = 0
    /\ rb_name' = <<>>

\* the number of rebuild invocations made so far
rebuilds_so_far == Max({rb_n, rb_parked.n})

\* lambda_handler is invoked (these locals are free: their invocation is over)
RebuildInvoke ==
    /\ rb_pc \in {"idle", "done"}
    /\ rebuilds_so_far < MaxRebuilds
    /\ rb_n' = rebuilds_so_far + 1
    /\ rb_pre' = rules
    /\ rb_scan' = {}
    /\ rb_result' = NoRebuildResult
    /\ rb_pc' = "list"
    /\ UNCHANGED <<rebuild_frame, rules, rb_names, rb_rule, rb_items, rb_item,
                   rb_entries, rb_k, rb_name>>

\* line 42: list_rules
RebuildListRules ==
    /\ rb_pc = "list"
    /\ rb_names' = rules_to_clear(list_rules(rules))
    /\ rb_pc' = "clear"
    /\ UNCHANGED <<rebuild_frame, rb_scan, rules, rb_n, rb_pre, rb_rule, rb_items, rb_item,
                   rb_entries, rb_k, rb_name, rb_result>>

\* lines 44-47: a rule with the marker in its name is skipped
RebuildSkipProtected ==
    /\ rb_pc = "clear"
    /\ \E name \in rb_names :
          /\ is_protected(name)
          /\ rb_names' = rb_names \ {name}
    /\ UNCHANGED <<rebuild_frame, rb_scan, rules, rb_pc, rb_n, rb_pre, rb_rule, rb_items, rb_item,
                   rb_entries, rb_k, rb_name, rb_result>>

\* mutant: clear_all_rules goes to delete_rule without remove_targets_from_rule
RebuildRemoveTargets_skipped ==
    /\ rb_pc = "clear"
    /\ \E name \in rb_names :
          /\ ~is_protected(name)
          /\ exists_rule(rules, name)
          /\ rb_rule' = name
          /\ rb_names' = rb_names \ {name}
    /\ rb_pc' = "delete"
    /\ UNCHANGED <<rebuild_frame, rb_scan, rules, rb_n, rb_pre, rb_items, rb_item, rb_entries, rb_k,
                   rb_name, rb_result>>

\* lines 48, 52-58: remove_targets_from_rule removes every target of the rule
\* (list_targets_by_rule raises when the rule is gone)
RebuildRemoveTargets ==
    /\ rb_pc = "clear"
    /\ \E name \in rb_names :
          /\ ~is_protected(name)
          /\ exists_rule(rules, name)
          /\ LET target_ids == {t.Id : t \in rule_named(rules, name).Targets}
             IN  rules' = IF target_ids # {}
                          THEN remove_targets(rules, name, target_ids)
                          ELSE rules
          /\ rb_rule' = name
          /\ rb_names' = rb_names \ {name}
    /\ rb_pc' = "delete"
    /\ UNCHANGED <<rebuild_frame, rb_scan, rb_n, rb_pre, rb_items, rb_item, rb_entries, rb_k,
                   rb_name, rb_result>>

\* line 49: delete_rule (EventBridge refuses to delete a rule that has targets)
RebuildDeleteRule ==
    /\ rb_pc = "delete"
    /\ \A r \in rules : r.Name = rb_rule => r.Targets = {}
    /\ rules' = delete_rule(rules, rb_rule)
    /\ rb_rule' = <<>>
    /\ rb_pc' = "clear"
    /\ UNCHANGED <<rebuild_frame, rb_scan, rb_n, rb_pre, rb_names, rb_items, rb_item, rb_entries,
                   rb_k, rb_name, rb_result>>

\* lines 26-27: clear_all_rules is over, the table is scanned
RebuildScan ==
    /\ rb_pc = "clear"
    /\ rb_names = {}
    /\ rb_items' = table
    /\ rb_scan' = table
    /\ rb_pc' = "items"
    /\ UNCHANGED <<rebuild_frame, rules, rb_n, rb_pre, rb_names, rb_rule, rb_item,
                   rb_entries, rb_k, rb_name, rb_result>>

\* lines 28-33, 60-66: the next item; its entries, if it has a user_id and preferences
RebuildNextItem ==
    /\ rb_pc = "items"
    /\ \E item \in rb_items :
          LET entries == IF item.user_id # "" /\ DOMAIN item.preferences # {}
                         THEN days_with_times(item.preferences)
                         ELSE <<>>
          IN  /\ rb_items' = rb_items \ {item}
              /\ IF entries = <<>>
                 THEN UNCHANGED <<rb_pc, rb_item, rb_entries, rb_k>>
                 ELSE /\ rb_item' = item
                      /\ rb_entries' = entries
                      /\ rb_k' = 1
                      /\ rb_pc' = "entries"
    /\ UNCHANGED <<rebuild_frame, rb_scan, rules, rb_n, rb_pre, rb_names, rb_rule, rb_name,
                   rb_result>>

\* lines 69-80, 90-106: the rule of the next entry is put under a random name
RebuildPutRule ==
    /\ rb_pc = "entries"
    /\ \E random_number \in RandomNumbers :
          LET name == rule_name(rb_item.user_id, random_number)
          IN  /\ rules' = put_rule(rules, name, cron_of_entry(rb_entries[rb_k]), rb_n)
              /\ rb_name' = name
    /\ rb_pc' = "targets"
    /\ UNCHANGED <<rebuild_frame, rb_scan, rb_n, rb_pre, rb_names, rb_rule, rb_items, rb_item,
                   rb_entries, rb_k, rb_result>>

\* lines 82-88: the target of the rule is put; then the next entry, or the next item
RebuildPutTargets ==
    /\ rb_pc = "targets"
    /\ exists_rule(rules, rb_name)
    /\ rules' = put_targets(rules, rb_name, target(rb_item.user_id))
    /\ rb_name' = <<>>
    /\ IF rb_k < Len(rb_entries)
       THEN /\ rb_k' = rb_k + 1
            /\ rb_pc' = "entries"
            /\ UNCHANGED <<rb_item, rb_entries>>
       ELSE /\ rb_item' = NoItem
            /\ rb_entries' = <<>>
            /\ rb_k' = 0
            /\ rb_pc' = "items"
    /\ UNCHANGED <<rebuild_frame, rb_scan, rb_n, rb_pre, rb_names, rb_rule, rb_items, rb_result>>

\* line 35: every item is processed
RebuildReturn ==
    /\ rb_pc = "items"
    /\ rb_items = {}
    /\ rb_result' = [statusCode |-> 200, body |-> "EventBridge rules recreated successfully"]
    /\ rb_pc' = "done"
    /\ RebuildLocalsCleared
    /\ UNCHANGED <<rebuild_frame, rb_scan, rules, rb_n, rb_pre>>

\* the handler is at, or on its way to, a call of EventBridge or of DynamoDB
RebuildCallPending == rb_pc \in {"list", "clear", "delete", "entries", "targets"}

\* lines 36-38: an exception of any call ends the rebuild with status 500
RebuildRaise ==
    /\ RebuildCallPending
    /\ rb_result' = [statusCode |-> 500, body |-> "Error processing items"]
    /\ rb_pc' = "done"
    /\ RebuildLocalsCleared
    /\ UNCHANGED <<rebuild_frame, rb_scan, rules, rb_n, rb_pre>>

\* lines 36-38, when it is the rule set that makes the call raise:
\* list_targets_by_rule (line 54) for a listed rule that is gone, delete_rule
\* (line 49) for a rule that has targets, put_targets (line 82) for a rule that
\* is gone
RebuildCallRefused ==
    /\ \/ rb_pc = "clear" /\ \E name \in rb_names : ~is_protected(name) /\ ~exists_rule(rules, name)
       \/ rb_pc = "delete" /\ \E r \in rules : r.Name = rb_rule /\ r.Targets # {}
       \/ rb_pc = "targets" /\ ~exists_rule(rules, rb_name)
    /\ rb_result' = [statusCode |-> 500, body |-> "Error processing items"]
    /\ rb_pc' = "done"
    /\ RebuildLocalsCleared
    /\ UNCHANGED <<rebuild_frame, rb_scan, rules, rb_n, rb_pre>>

-----------------------------------------------------------------------------
(* CheckUserRole.py: the Reconciliation Sweeper (lambda_handler) *)

\* range(1, 100)
RangeStart == 1
RangeStop  == 100

\* x in l, for a list l
in_list(x, l) == \E i \in 1..Len(l) : l[i] = x

\* what urlopen and json.loads give for one user id: a list of roles (status
\* 200), an HTTPError with its code, or another exception
RolesAnswer(roles) == [kind |-> "roles", code |-> 200, roles |-> roles]
HTTPError(code)    == [kind |-> "HTTPError", code |-> code, roles |-> <<>>]
OtherException     == [kind |-> "Exception", code |-> 0, roles |-> <<>>]
NoAnswer           == [kind |-> "none", code |-> 0, roles |-> <<>>]

\* mutant: every HTTPError is taken for "user not found"
deletes_on_any_http_error(answer) ==
    CASE answer.kind = "roles" ->
            ~(in_list("customer", answer.roles) \/ in_list("administrator", answer.roles))
      [] answer.kind = "HTTPError" -> TRUE
      [] OTHER -> FALSE

\* lines 29-38: the answers on which the handler calls table.delete_item
deletes(answer) ==
    CASE answer.kind = "roles" ->
            ~(in_list("customer", answer.roles) \/ in_list("administrator", answer.roles))
      [] answer.kind = "HTTPError" -> answer.code = 404
      [] OTHER -> FALSE

NoReconResult == [statusCode |-> 0, exc |-> "none"]

\* rc_log once rc_user_id is done: its answer and how delete_item went are
\* noted if the id had an item when the run was invoked
Logged(answer, how) ==
    IF \E r \in rc_table0 : r.user_id = str(rc_user_id)
    THEN [i \in DOMAIN rc_log \cup {rc_user_id} |->
             IF i = rc_user_id THEN [answer |-> answer, delete |-> how] ELSE rc_log[i]]
    ELSE rc_log

ReconInvoke ==
    /\ rc_pc = "idle"
    /\ rc_table0' = table
    /\ rc_user_id' = RangeStart
    /\ rc_pc' = "query"
    /\ rc_queries' = <<>>
    /\ UNCHANGED <<recon_frame, table, rc_answer, rc_log, rc_result>>

\* lines 18-32, 34-36, 39-40: the authority is asked about rc_user_id; the item
\* is kept unless the answer calls for its deletion
ReconQuery(answer) ==
    /\ rc_pc = "query"
    /\ rc_user_id < RangeStop
    /\ rc_queries' = Append(rc_queries, rc_user_id)
    /\ IF deletes(answer)
       THEN /\ rc_answer' = answer
            /\ rc_pc' = IF answer.kind = "roles" THEN "delete200" ELSE "delete404"
            /\ UNCHANGED <<rc_user_id, rc_log>>
       ELSE /\ rc_answer' = NoAnswer
            /\ rc_log' = Logged(answer, "none")
            /\ rc_user_id' = rc_user_id + 1
            /\ UNCHANGED rc_pc
    /\ UNCHANGED <<recon_frame, table, rc_table0, rc_result>>

\* lines 33, 38: delete_item succeeds
ReconDeleteOk ==
    /\ rc_pc \in {"delete200", "delete404"}
    /\ table' = delete_item(table, str(rc_user_id))
    /\ rc_log' = Logged(rc_answer, "ok")
    /\ rc_user_id' = rc_user_id + 1
    /\ rc_answer' = NoAnswer
    /\ rc_pc' = "query"
    /\ UNCHANGED <<recon_frame, rc_table0, rc_queries, rc_result>>

\* line 33 raises: the exception is caught at line 39, printed, and the loop goes on
ReconDeleteRaises200 ==
    /\ rc_pc = "delete200"
    /\ rc_log' = Logged(rc_answer, "raised")
    /\ rc_user_id' = rc_user_id + 1
    /\ rc_answer' = NoAnswer
    /\ rc_pc' = "query"
    /\ UNCHANGED <<recon_frame, table, rc_table0, rc_queries, rc_result>>

\* line 38 raises inside the except clause: nothing catches it, the run ends
ReconDeleteRaises404 ==
    /\ rc_pc = "delete404"
    /\ rc_log' = Logged(rc_answer, "raised")
    /\ rc_result' = [statusCode |-> 0, exc |-> "ClientError"]
    /\ rc_answer' = NoAnswer
    /\ rc_pc' = "done"
    /\ UNCHANGED <<recon_frame, table, rc_table0, rc_user_id, rc_queries>>

\* lines 42-45: the range is exhausted
ReconReturn ==
    /\ rc_pc = "query"
    /\ rc_user_id >= RangeStop
    /\ rc_result' = [statusCode |-> 200, exc |-> "none"]
    /\ rc_pc' = "done"
    /\ UNCHANGED <<recon_frame, table, rc_table0, rc_user_id, rc_answer, rc_log, rc_queries>>

-----------------------------------------------------------------------------
(* sqsWorkerLambda.py: the Worker Invoker (lambda_handler), and the queue's  *)
(* event source mapping that invokes it with a batch of messages            *)

NoWorkerResult == [statusCode |-> 0, exc |-> "none"]

\* the messages of q at the positions P, in their order
RECURSIVE pick(_, _)
pick(q, P) ==
    IF q = <<>> THEN <<>>
    ELSE LET rest == pick(Tail(q), {i - 1 : i \in P \ {1}})
         IN  IF 1 \in P THEN <<Head(q)>> \o rest ELSE rest

\* lines 11, 16-19: the payload built from the body of one record
payload(body) ==
    LET message_body == json_loads(body)
    IN  json_dumps(<<"user_id">>, [user_id |-> message_body.user_id])

\* mutant: every invocation of a batch is given the first record's user_id
payloads_of_first_record(records) == [k \in 1..Len(records) |-> payload(records[1])]

\* lines 9-26: the payloads of the invocations a run issues for its records
payloads(records) == [k \in 1..Len(records) |-> payload(records[k])]

\* the event source mapping takes some messages out of sight and invokes the
\* handler with them as event['Records']
WorkerDeliver ==
    /\ wk_pc = "idle"
    /\ \E P \in SUBSET (1..Len(queue)) :
          /\ P # {} /\ Cardinality(P) <= MaxBatch
          /\ wk_records' = pick(queue, P)
          /\ queue' = pick(queue, (1..Len(queue)) \ P)
    /\ wk_i' = 1
    /\ wk_pc' = "loop"
    /\ UNCHANGED <<worker_frame, wk_result, wk_fails, invocations>>

\* lines 9-29: the next record; lambda_client.invoke with InvocationType
\* 'Event' returns once the invocation is accepted
WorkerInvokeOk ==
    /\ wk_pc = "loop"
    /\ wk_i <= Len(wk_records)
    /\ invocations' = Append(invocations, payloads(wk_records)[wk_i])
    /\ wk_i' = wk_i + 1
    /\ UNCHANGED <<worker_frame, queue, wk_pc, wk_records, wk_result, wk_fails>>

\* line 22 raises: nothing catches it, the invocation ends with the exception
WorkerInvokeFail ==
    /\ wk_pc = "loop"
    /\ wk_i <= Len(wk_records)
    /\ wk_fails < MaxFailures
    /\ wk_fails' = wk_fails + 1
    /\ wk_result' = [statusCode |-> 0, exc |-> "ClientError"]
    /\ wk_pc' = "done"
    /\ UNCHANGED <<worker_frame, queue, wk_records, wk_i, invocations>>

\* lines 31-34: every record is handed off
WorkerReturn ==
    /\ wk_pc = "loop"
    /\ wk_i > Len(wk_records)
    /\ wk_result' = [statusCode |-> 200, exc |-> "none"]
    /\ wk_pc' = "done"
    /\ UNCHANGED <<worker_frame, queue, wk_records, wk_i, wk_fails, invocations>>

\* the invocation returned: the event source mapping deletes the batch
WorkerBatchDeleted ==
    /\ wk_pc = "done" /\ wk_result.exc = "none"
    /\ wk_pc' = "idle" /\ wk_records' = <<>> /\ wk_i' = 0 /\ wk_result' = NoWorkerResult
    /\ UNCHANGED <<worker_frame, queue, wk_fails, invocations>>

\* mutant: the batch of a failed invocation is deleted as well
WorkerBatchDropped ==
    /\ wk_pc = "done" /\ wk_result.exc # "none"
    /\ wk_pc' = "idle" /\ wk_records' = <<>> /\ wk_i' = 0 /\ wk_result' = NoWorkerResult
    /\ UNCHANGED <<worker_frame, queue, wk_fails, invocations>>

\* the invocation failed: the whole batch becomes visible in the queue again
WorkerBatchReturned ==
    /\ wk_pc = "done" /\ wk_result.exc # "none"
    /\ queue' = queue \o wk_records
    /\ wk_pc' = "idle" /\ wk_records' = <<>> /\ wk_i' = 0 /\ wk_result' = NoWorkerResult
    /\ UNCHANGED <<worker_frame, wk_fails, invocations>>

WorkerNext ==
    \/ WorkerDeliver
    \/ WorkerInvokeOk
    \/ WorkerInvokeFail
    \/ WorkerReturn
    \/ WorkerBatchDeleted
    \/ WorkerBatchReturned

-----------------------------------------------------------------------------
(* main_function.py: DataProcessor.clean_and_split_keywords.  In a keyword  *)
(* string a token is one character (a space, one of the separators ',' ';'  *)
(* '|', a letter) or a word of three letters without spaces.                *)

\* keywords[:20]
KeywordLimit == 20

\* the words of the keyword strings, three letters each
WordTable ==
    <<"w01", "w02", "w03", "w04", "w05", "w06", "w07", "w08", "w09", "w10",
      "w11", "w12", "w13", "w14", "w15", "w16", "w17", "w18", "w19", "w20",
      "w21", "w22", "w23", "w24", "w25", "w26", "w27", "w28", "w29", "w30">>

\* len(s): the number of characters
RECURSIVE len(_)
len(s) ==
    IF s = <<>> THEN 0
    ELSE (IF \E i \in 1..Len(WordTable) : WordTable[i] = Head(s) THEN 3 ELSE 1) + len(Tail(s))

\* s.replace(old, new): the occurrences of old from left to right, not
\* overlapping, which are the places where s.split(old) cuts
replace(s, old, new) == join(new, split(s, old))

\* s.strip(): without the spaces at its two ends
RECURSIVE strip(_)
strip(s) ==
    IF s = <<>> THEN s
    ELSE IF Head(s) = " " THEN strip(Tail(s))
    ELSE IF s[Len(s)] = " " THEN strip(SubSeq(s, 1, Len(s) - 1))
    ELSE s

\* lines 101-110: the list `keywords` before it is cut
cleaned_keywords(ks) ==
    LET cleaned1 == replace(replace(ks, <<";">>, <<",">>), <<"|">>, <<",">>)
        cleaned  == replace(join(<<",", " ">>, split(cleaned1, <<",">>)),
                            <<" ", " ">>, <<" ">>)
        parts    == split(cleaned, <<",", " ">>)
        kept     == SelectSeq(parts, LAMBDA keyword :
                                  strip(keyword) # <<>> /\ len(strip(keyword)) > 1)
    IN  [i \in 1..Len(kept) |-> strip(kept[i])]

\* mutant: the list is returned whole
clean_and_split_keywords_uncut(ks) ==
    IF ks = <<>> THEN <<>> ELSE cleaned_keywords(ks)

\* lines 95-112: clean_and_split_keywords
clean_and_split_keywords(ks) ==
    IF ks = <<>> THEN <<>>
    ELSE LET all == cleaned_keywords(ks)
         IN  SubSeq(all, 1, Min({KeywordLimit, Len(all)}))

\* the call returns
KeywordsCall ==
    /\ kw_pc = "idle"
    /\ keywords' = clean_and_split_keywords(keyword_string)
    /\ kw_pc' = "done"
    /\ UNCHANGED <<eval_vars, env_vars, sweep_vars, rebuild_vars, recon_vars, sweeps_vars,
                   worker_vars, rebuilds_vars, keyword_string>>

-----------------------------------------------------------------------------
(* The inputs the evaluator is checked on *)

\* the two-character text of n, as the intake form writes an hour or a minute
Text2(n) == <<DigitText[(n \div 10) + 1], DigitText[(n % 10) + 1]>>

\* "<day> v <HH:MM>"
DayEntry(d, h, m) == <<d>> \o SEP_V \o Text2(h) \o SEP_COLON \o Text2(m)

KnownDays     == DOMAIN day_mapping
UnknownDays   == {"streda", "Monday"}     \* wrong case, wrong language
ScheduleHours == {0, 9, 12, 23}
ScheduleMins  == {0, 30}

\* an entry whose hour is not a number
BadHourEntry == <<"Streda">> \o SEP_V \o <<"a", "b">> \o SEP_COLON \o Text2(0)

\* every single entry: the two markers, every day token with every hour text
SingleEntries ==
    {JEDNOU_DENNE, <<"Kazdy den">>, BadHourEntry}
    \cup {DayEntry(d, h, m) : d \in KnownDays \cup UnknownDays,
                              h \in ScheduleHours, m \in ScheduleMins}

\* the entries that lists of several entries are built from
ListEntries ==
    {JEDNOU_DENNE, <<"Kazdy den">>, BadHourEntry,
     DayEntry("Streda", 12, 0), DayEntry("Patek", 9, 30), DayEntry("streda", 12, 0)}

\* the sequences of n entries of E
RECURSIVE EntryLists(_, _)
EntryLists(E, n) ==
    IF n = 0 THEN {<<>>}
    ELSE {<<e>> \o l : e \in E, l \in EntryLists(E, n - 1)}

SeveralEntries == UNION {EntryLists(ListEntries, n) : n \in 2..MaxEntries}

\* the schedule strings: empty, one entry, or a ", "-separated list
Schedules ==
    {<<>>} \cup SingleEntries \cup {join(SEP_COMMA, l) : l \in SeveralEntries}

Times == [weekday : 0..6, hour : 0..23, minute : {0, 7}]

Pending == [exc |-> "pending", ret |-> FALSE]

-----------------------------------------------------------------------------
(* The tables and the instants the handlers are checked on *)

UserIds == {str(n) : n \in 1..MaxItems}

\* the item the intake handler writes for user u with schedule string f; the
\* other fields are free text, told apart here by their field and their user
Item(u, f) ==
    [user_id     |-> u,
     user_email  |-> <<"user_email", u>>,
     user_role   |-> <<"user_role", u>>,
     preferences |-> [druh_zakazek                |-> <<"druh_zakazek", u>>,
                      klicova_slova               |-> <<"klicova_slova", u>>,
                      frekvence_zasilani          |-> f,
                      email_pro_zasilani_vysledku |-> <<"email_pro_zasilani_vysledku", u>>,
                      popis_firmy                 |-> <<"popis_firmy", u>>]]

StreduPatek == join(SEP_COMMA, <<DayEntry("Streda", 12, 0), DayEntry("Patek", 9, 30)>>)

SweepSchedules ==
    {<<>>, JEDNOU_DENNE, BadHourEntry, StreduPatek,
     DayEntry("Streda", 12, 0), DayEntry("Patek", 9, 30)}

\* the tables of at most one item per user id u, with a schedule of F[u]
Tables(F) ==
    UNION {{ {Item(u, f[u]) : u \in U} : f \in {g \in [U -> UNION {F[u] : u \in U}] :
                                                  \A u \in U : g[u] \in F[u]} }
           : U \in SUBSET DOMAIN F}

\* the tables the rebuilds are checked on: a user id may hold the reserved marker
RebuildSchedules ==
    [u \in {"1", "gregi"} |->
        IF u = "1" THEN {<<>>, StreduPatek, DayEntry("streda", 12, 0)}
                   ELSE {KAZDY_DEN}]

\* rules made by hand before any rebuild: with or without the marker in the
\* name (in any case), with or without targets
HandMadeRule(name, ids) ==
    [Name |-> name, ScheduleExpression |-> "rate(1 day)", State |-> "ENABLED",
     Targets |-> {[Id |-> <<id>>, Arn |-> lambda_arn,
                   Input |-> json_dumps(<<"user_id">>, [user_id |-> "9"])] : id \in ids},
     born |-> 0]

HandMadeRules ==
    {HandMadeRule(<<"old_rule">>, {"t1", "t2"}),
     HandMadeRule(<<"empty_rule">>, {}),
     HandMadeRule(<<"My-", "GREGI", "-Rule">>, {"keep"})}

\* Tuesday 23:07 UTC is Wednesday 01:07 for the handler, Wednesday 10:07 UTC is
\* Wednesday 12:07, Friday 07:07 UTC is Friday 09:07
UtcTimes == [weekday : {1, 2, 4}, hour : {7, 10, 23}, minute : {7}]

NoTime == [weekday |-> 0, hour |-> 0, minute |-> 0]

EvalIdle ==
    /\ current_time = NoTime
    /\ schedule_preference = <<>>
    /\ eval_out = Pending

SweepIdle ==
    /\ sw_pc = "idle"
    /\ sw_now = NoTime
    /\ sw_items = <<>>
    /\ sw_i = 0
    /\ sw_task = NoTask
    /\ sw_sends = 0
    /\ sw_failed = {}
    /\ sw_result = NoResult

RebuildIdle ==
    /\ rules = {}
    /\ rb_pc = "idle"
    /\ rb_n = 0
    /\ rb_pre = {}
    /\ rb_scan = {}
    /\ rb_names = {}
    /\ rb_rule = <<>>
    /\ rb_items = {}
    /\ rb_item = NoItem
    /\ rb_entries = <<>>
    /\ rb_k = 0
    /\ rb_name = <<>>
    /\ rb_result = NoRebuildResult

ReconIdle ==
    /\ rc_pc = "idle"
    /\ rc_user_id = 0
    /\ rc_answer = NoAnswer
    /\ rc_table0 = {}
    /\ rc_log = <<>>
    /\ rc_queries = <<>>
    /\ rc_result = NoReconResult

WorkerIdle ==
    /\ wk_pc = "idle"
    /\ wk_records = <<>>
    /\ wk_i = 0
    /\ wk_result = NoWorkerResult
    /\ wk_fails = 0
    /\ invocations = <<>>

\* the locals of the Sweep invocation that is stepping
SweepLocals ==
    [pc |-> sw_pc, now |-> sw_now, items |-> sw_items, i |-> sw_i, task |-> sw_task,
     sends |-> sw_sends, failed |-> sw_failed, result |-> sw_result,
     id |-> sw_id, slot |-> sw_slot]

\* the locals of an invocation that has not been made
NotInvoked ==
    [pc |-> "idle", now |-> NoTime, items |-> <<>>, i |-> 0, task |-> NoTask,
     sends |-> 0, failed |-> {}, result |-> NoResult, id |-> 0, slot |-> 0]

SweepsIdle ==
    /\ epoch = 0
    /\ sw_id = 0
    /\ sw_slot = 0
    /\ sw_parked = NotInvoked
    /\ sw_log = <<>>

\* the locals of the rebuild invocation that is stepping
RebuildLocals ==
    [pc |-> rb_pc, n |-> rb_n, pre |-> rb_pre, scan |-> rb_scan, names |-> rb_names, rule |-> rb_rule,
     items |-> rb_items, item |-> rb_item, entries |-> rb_entries, k |-> rb_k,
     name |-> rb_name, result |-> rb_result]

\* the locals of a rebuild invocation that has not been made
NotRebuilding ==
    [pc |-> "idle", n |-> 0, pre |-> {}, scan |-> {}, names |-> {}, rule |-> <<>>, items |-> {},
     item |-> NoItem, entries |-> <<>>, k |-> 0, name |-> <<>>, result |-> NoRebuildResult]

RebuildsIdle ==
    /\ rb_parked = NotRebuilding
    /\ rb_overlap = FALSE

KeywordsIdle ==
    /\ keyword_string = <<>>
    /\ kw_pc = "idle"
    /\ keywords = <<>>

\* the user ids of the tables the reconciliation is checked on: the first and
\* the last id of range(1, 100), the id after it, and an id that is no number
ReconUserIds == {"1", "99", "100", "gregi"}

\* the answers of the role authority
Answers ==
    {RolesAnswer(<<>>), RolesAnswer(<<"subscriber">>), RolesAnswer(<<"customer">>),
     RolesAnswer(<<"subscriber", "administrator">>),
     HTTPError(404), HTTPError(500), OtherException}

-----------------------------------------------------------------------------
(* The clock, and two invocations of the Sweep.  Each invocation of the      *)
(* Lambda function has its own locals; the sw_ variables are the locals of  *)
(* the invocation that takes the next step, sw_parked those of the other.   *)

\* half an hour passes: 07 -> 37 within the clock hour, 37 -> 07 of the next
ClockTick ==
    /\ IF utc_clock.minute < 30
       THEN /\ utc_clock' = [utc_clock EXCEPT !.minute = @ + 30]
            /\ UNCHANGED epoch
       ELSE /\ epoch < MaxHours
            /\ epoch' = epoch + 1
            /\ utc_clock' = [weekday |-> (utc_clock.weekday + ((utc_clock.hour + 1) \div 24)) % 7,
                             hour    |-> (utc_clock.hour + 1) % 24,
                             minute  |-> utc_clock.minute - 30]
    /\ UNCHANGED <<eval_vars, table, queue, sweep_vars, rebuild_vars, recon_vars,
                   sw_id, sw_slot, sw_parked, sw_log, worker_vars, rebuilds_vars, keywords_vars>>

\* the other invocation takes the next steps: it is invoked now if it was not
\* yet, or goes on where it was
SweepSwitch ==
    /\ sw_pc # "idle"
    /\ sw_parked.pc # "done"
    /\ sw_parked' = SweepLocals
    /\ sw_pc' = sw_parked.pc
    /\ sw_now' = sw_parked.now
    /\ sw_items' = sw_parked.items
    /\ sw_i' = sw_parked.i
    /\ sw_task' = sw_parked.task
    /\ sw_sends' = sw_parked.sends
    /\ sw_failed' = sw_parked.failed
    /\ sw_result' = sw_parked.result
    /\ sw_id' = sw_parked.id
    /\ sw_slot' = sw_parked.slot
    /\ UNCHANGED <<eval_vars, env_vars, rebuild_vars, recon_vars, epoch, sw_log, worker_vars,
                   rebuilds_vars, keywords_vars>>

\* both invocations, whichever is stepping
SweepRuns == {SweepLocals, sw_parked}

\* the same for the rebuild handler: the other invocation takes the next
\* steps; the two overlap when the one that stops stepping is not over
RebuildSwitch ==
    /\ rb_pc # "idle"
    /\ rb_parked.pc # "done"
    /\ rb_parked' = RebuildLocals
    /\ rb_overlap' = (rb_overlap \/ rb_pc # "done")
    /\ rb_pc' = rb_parked.pc
    /\ rb_n' = rb_parked.n
    /\ rb_pre' = rb_parked.pre
    /\ rb_scan' = rb_parked.scan
    /\ rb_names' = rb_parked.names
    /\ rb_rule' = rb_parked.rule
    /\ rb_items' = rb_parked.items
    /\ rb_item' = rb_parked.item
    /\ rb_entries' = rb_parked.entries
    /\ rb_k' = rb_parked.k
    /\ rb_name' = rb_parked.name
    /\ rb_result' = rb_parked.result
    /\ UNCHANGED <<eval_vars, env_vars, sweep_vars, recon_vars, sweeps_vars, worker_vars, rules,
                   keywords_vars>>

\* both invocations, whichever is stepping
RebuildRuns == {RebuildLocals, rb_parked}

-----------------------------------------------------------------------------
(* Specification of the evaluator alone: any instant, any schedule string *)

EvalInit ==
    /\ current_time \in Times
    /\ schedule_preference \in Schedules
    /\ eval_out = Pending
    /\ table = {} /\ queue = <<>> /\ utc_clock = NoTime
    /\ SweepIdle
    /\ RebuildIdle
    /\ ReconIdle
    /\ SweepsIdle
    /\ WorkerIdle
    /\ RebuildsIdle
    /\ KeywordsIdle

Evaluate ==
    /\ eval_out = Pending
    /\ eval_out' = is_scheduled_time(current_time, schedule_preference)
    /\ UNCHANGED <<current_time, schedule_preference, eval_frame>>

EvalNext == Evaluate

SpecEval == EvalInit /\ [][EvalNext]_vars

-----------------------------------------------------------------------------
(* Specification of one Sweep invocation over any table, at any instant *)

SweepInit ==
    /\ EvalIdle
    /\ table \in Tables([u \in UserIds |-> SweepSchedules])
    /\ queue = <<>>
    /\ utc_clock \in UtcTimes
    /\ SweepIdle
    /\ RebuildIdle
    /\ ReconIdle
    /\ SweepsIdle
    /\ WorkerIdle
    /\ RebuildsIdle
    /\ KeywordsIdle

SweepNext ==
    \/ SweepInvoke
    \/ SweepScanOk
    \/ SweepScanFail
    \/ SweepEvaluate
    \/ SweepSendOk
    \/ SweepSendFail
    \/ SweepReturn

SpecSweep == SweepInit /\ [][SweepNext]_vars

-----------------------------------------------------------------------------
(* Specification of the rebuilds: any table, any rules made by hand, one     *)
(* rebuild after the other (single flight), any call of a rebuild may raise *)

RebuildInit ==
    /\ EvalIdle
    /\ SweepIdle
    /\ ReconIdle
    /\ SweepsIdle
    /\ WorkerIdle
    /\ RebuildsIdle
    /\ KeywordsIdle
    /\ table \in Tables(RebuildSchedules)
    /\ queue = <<>>
    /\ utc_clock = NoTime
    /\ rules \in SUBSET HandMadeRules
    /\ rb_pc = "idle"
    /\ rb_n = 0
    /\ rb_pre = {}
    /\ rb_scan = {}
    /\ rb_names = {}
    /\ rb_rule = <<>>
    /\ rb_items = {}
    /\ rb_item = NoItem
    /\ rb_entries = <<>>
    /\ rb_k = 0
    /\ rb_name = <<>>
    /\ rb_result = NoRebuildResult

RebuildNext ==
    \/ RebuildInvoke
    \/ RebuildListRules
    \/ RebuildSkipProtected
    \/ RebuildRemoveTargets
    \/ RebuildDeleteRule
    \/ RebuildScan
    \/ RebuildNextItem
    \/ RebuildPutRule
    \/ RebuildPutTargets
    \/ RebuildReturn
    \/ RebuildRaise

SpecRebuild == RebuildInit /\ [][RebuildNext]_vars

-----------------------------------------------------------------------------
(* Specification of one Reconciliation run: any table, any answer of the     *)
(* role authority for each id, delete_item may raise                        *)

ReconInit ==
    /\ EvalIdle
    /\ SweepIdle
    /\ RebuildIdle
    /\ table \in Tables([u \in ReconUserIds |-> {JEDNOU_DENNE}])
    /\ queue = <<>>
    /\ utc_clock = NoTime
    /\ ReconIdle
    /\ SweepsIdle
    /\ WorkerIdle
    /\ RebuildsIdle
    /\ KeywordsIdle

ReconNext ==
    \/ ReconInvoke
    \/ \E answer \in Answers : ReconQuery(answer)
    \/ ReconDeleteOk
    \/ ReconDeleteRaises200
    \/ ReconDeleteRaises404
    \/ ReconReturn

SpecRecon == ReconInit /\ [][ReconNext]_vars

-----------------------------------------------------------------------------
(* Specification of the dispatch path: one Sweep invocation, the queue, and  *)
(* the Worker Invoker on the batches the queue hands to it                  *)

DispatchSchedules == {JEDNOU_DENNE, DayEntry("Patek", 9, 30)}

DispatchUserIds == {"1", "2"}

Wednesday1007utc == [weekday |-> 2, hour |-> 10, minute |-> 7]

DispatchInit ==
    /\ EvalIdle
    /\ table \in Tables([u \in DispatchUserIds |-> DispatchSchedules])
    /\ queue = <<>>
    /\ utc_clock = Wednesday1007utc
    /\ SweepIdle
    /\ RebuildIdle
    /\ ReconIdle
    /\ SweepsIdle
    /\ WorkerIdle
    /\ RebuildsIdle
    /\ KeywordsIdle

DispatchNext == SweepNext \/ WorkerNext

SpecDispatch == DispatchInit /\ [][DispatchNext]_vars

\* the queue keeps delivering what it holds, a handler that was invoked runs to
\* its end, and the invocation of the Search Worker does not fail for ever
DispatchFairness ==
    /\ WF_vars(WorkerDeliver)
    /\ SF_vars(WorkerInvokeOk)
    /\ WF_vars(WorkerReturn)
    /\ WF_vars(WorkerBatchDeleted)
    /\ WF_vars(WorkerBatchReturned)

SpecDispatchFair == DispatchInit /\ [][DispatchNext]_vars /\ DispatchFairness

-----------------------------------------------------------------------------
(* Specification of two Sweep invocations over one table, one after the     *)
(* other or overlapping, in the same clock hour or not                      *)

SweepsSchedules == {JEDNOU_DENNE, StreduPatek, DayEntry("Streda", 11, 0)}

SweepsUserIds == {"1", "2"}

\* Wednesday 09:37 UTC is 11:37 for the handler; half an hour later it is 12:07
SweepsTimes == {[weekday |-> 2, hour |-> 9, minute |-> 37], Wednesday1007utc}

SweepsInit ==
    /\ EvalIdle
    /\ table \in Tables([u \in SweepsUserIds |-> SweepsSchedules])
    /\ queue = <<>>
    /\ utc_clock \in SweepsTimes
    /\ SweepIdle
    /\ RebuildIdle
    /\ ReconIdle
    /\ SweepsIdle
    /\ WorkerIdle
    /\ RebuildsIdle
    /\ KeywordsIdle

SweepsNext == SweepNext \/ SweepSwitch \/ ClockTick

SpecSweeps == SweepsInit /\ [][SweepsNext]_vars

-----------------------------------------------------------------------------
(* Specification of two rebuild invocations over one table, one after the   *)
(* other (single flight) or overlapping; a call raises when the rule set    *)
(* the other invocation left makes it raise                                 *)

RebuildsSchedules == {DayEntry("Streda", 12, 0), StreduPatek}

RebuildsInit ==
    /\ EvalIdle
    /\ SweepIdle
    /\ ReconIdle
    /\ SweepsIdle
    /\ WorkerIdle
    /\ RebuildsIdle
    /\ KeywordsIdle
    /\ table \in Tables([u \in {"1"} |-> RebuildsSchedules])
    /\ queue = <<>>
    /\ utc_clock = NoTime
    /\ rules \in {{}, {HandMadeRule(<<"old_rule">>, {"t1", "t2"})}}
    /\ rb_pc = "idle"
    /\ rb_n = 0
    /\ rb_pre = {}
    /\ rb_scan = {}
    /\ rb_names = {}
    /\ rb_rule = <<>>
    /\ rb_items = {}
    /\ rb_item = NoItem
    /\ rb_entries = <<>>
    /\ rb_k = 0
    /\ rb_name = <<>>
    /\ rb_result = NoRebuildResult

RebuildsNext ==
    \/ rb_pc = "idle" /\ RebuildInvoke
    \/ RebuildListRules
    \/ RebuildRemoveTargets
    \/ RebuildDeleteRule
    \/ RebuildScan
    \/ RebuildNextItem
    \/ RebuildPutRule
    \/ RebuildPutTargets
    \/ RebuildReturn
    \/ RebuildCallRefused
    \/ RebuildSwitch

SpecRebuilds == RebuildsInit /\ [][RebuildsNext]_vars

-----------------------------------------------------------------------------
(* Specification of clean_and_split_keywords alone: any short string of     *)
(* spaces, separators, letters and words, and lists of up to NumWords words *)
(* written with one of the separators                                       *)

\* the longest of the short strings, in tokens
MaxKeywordLen == 4

\* the longest list, in words
NumWords == 22

KeywordAlphabet == {" ", ",", ";", "|", "a", "w01"}

RECURSIVE Strings(_)
Strings(n) ==
    IF n = 0 THEN {<<>>}
    ELSE LET shorter == Strings(n - 1)
         IN  shorter \cup {Append(s, c) : s \in shorter, c \in KeywordAlphabet}

ListSeparators == {<<",">>, <<",", " ">>, <<";">>, <<" ", "|", " ">>, <<",", " ", " ">>}

WordLists ==
    {join(sep, [i \in 1..n |-> <<WordTable[i]>>]) : n \in 1..NumWords, sep \in ListSeparators}

KeywordStrings == Strings(MaxKeywordLen) \cup WordLists

KeywordsInit ==
    /\ EvalIdle
    /\ table = {}
    /\ queue = <<>>
    /\ utc_clock = NoTime
    /\ SweepIdle
    /\ RebuildIdle
    /\ ReconIdle
    /\ SweepsIdle
    /\ WorkerIdle
    /\ RebuildsIdle
    /\ keyword_string \in KeywordStrings
    /\ kw_pc = "idle"
    /\ keywords = <<>>

KeywordsNext == KeywordsCall

SpecKeywords == KeywordsInit /\ [][KeywordsNext]_vars

-----------------------------------------------------------------------------
(* Specification of two ticks of the Sweep, one invocation after the other, *)
(* while the clock goes on and the form is submitted at any time with a     *)
(* schedule that is due at 11 or one that is due at 12; scans and sends     *)
(* succeed                                                                  *)

TicksSchedules == {DayEntry("Streda", 11, 0), JEDNOU_DENNE}

TicksUserIds == {"1", "2"}

\* Wednesday 09:37 UTC is 11:37 for the handler
Wednesday0937utc == [weekday |-> 2, hour |-> 9, minute |-> 37]

TicksInit ==
    /\ EvalIdle
    /\ table = {}
    /\ queue = <<>>
    /\ utc_clock = Wednesday0937utc
    /\ SweepIdle
    /\ RebuildIdle
    /\ ReconIdle
    /\ SweepsIdle
    /\ WorkerIdle
    /\ RebuildsIdle
    /\ KeywordsIdle

TicksNext ==
    \/ \E u \in TicksUserIds, f \in TicksSchedules : IntakePut(u, f, 1)
    \/ ClockTick
    \/ SweepInvoke
    \/ SweepScanOk
    \/ SweepEvaluate
    \/ SweepSendOk
    \/ SweepReturn
    \/ sw_pc = "done" /\ SweepSwitch

SpecTicks == TicksInit /\ [][TicksNext]_vars

-----------------------------------------------------------------------------
(* Specification of the two paths a schedule string takes: one Sweep and    *)
(* one rebuild, one after the other in any order, over tables whose         *)
(* schedules are well formed, empty, no schedule at all, or entries with a  *)
(* day name that is not in the tables                                       *)

\* strings that hold neither a daily marker nor " v ": a word, and an entry
\* written without the separator
Unparseable == {<<"nikdy">>, <<"Streda">> \o Text2(12) \o SEP_COLON \o Text2(0)}

\* "<day> v <HH:MM>" entries with a day name that is in neither table
UnknownDayEntries == {DayEntry(d, 12, 0) : d \in UnknownDays}

PathsSchedules ==
    {<<>>, JEDNOU_DENNE, KAZDY_DEN, DayEntry("Streda", 12, 0),
     join(SEP_COMMA, <<DayEntry("streda", 12, 0), DayEntry("Patek", 9, 30)>>)}
    \cup Unparseable \cup UnknownDayEntries

PathsUserIds == {"1", "2"}

PathsInit ==
    /\ EvalIdle
    /\ table \in Tables([u \in PathsUserIds |-> PathsSchedules])
    /\ queue = <<>>
    /\ utc_clock \in UtcTimes
    /\ SweepIdle
    /\ RebuildIdle
    /\ ReconIdle
    /\ SweepsIdle
    /\ WorkerIdle
    /\ RebuildsIdle
    /\ KeywordsIdle

PathsNext ==
    \/ rb_pc \in {"idle", "done"} /\ SweepInvoke
    \/ SweepScanOk \/ SweepEvaluate \/ SweepSendOk \/ SweepReturn
    \/ sw_pc \in {"idle", "done"} /\ rb_n = 0 /\ RebuildInvoke
    \/ RebuildListRules \/ RebuildScan \/ RebuildNextItem \/ RebuildPutRule
    \/ RebuildPutTargets \/ RebuildReturn

SpecPaths == PathsInit /\ [][PathsNext]_vars

-----------------------------------------------------------------------------
(* Specification of a change of the table and what the Sweep and the        *)
(* rebuild do before and after it: the user submits the form again with     *)
(* another schedule, at any time, and a Reconciliation run deletes the item *)
(* or keeps it, at any point of the other handlers' invocations (which do   *)
(* not step during the run: its steps for the ids without an item change    *)
(* nothing they read).  The Sweep is invoked twice and the rebuild          *)
(* MaxRebuilds times, one invocation of the two handlers after the other.   *)

\* the schedule the user has at first, and the one of the second submission
OldSchedule == DayEntry("Streda", 12, 0)
NewSchedule == JEDNOU_DENNE

\* the role authority knows user 1 as a customer or does not know the user;
\* it knows the users of the other ids, who have no item, as customers
ChangeAnswers(user_id) ==
    IF user_id = 1 THEN {RolesAnswer(<<"customer">>), HTTPError(404)}
                   ELSE {RolesAnswer(<<"customer">>)}

ChangeInit ==
    /\ EvalIdle
    /\ table = {Item("1", OldSchedule)}
    /\ queue = <<>>
    /\ utc_clock = Wednesday1007utc
    /\ SweepIdle
    /\ RebuildIdle
    /\ ReconIdle
    /\ SweepsIdle
    /\ WorkerIdle
    /\ RebuildsIdle
    /\ KeywordsIdle

\* no Reconciliation run is under way
ReconQuiet == rc_pc \in {"idle", "done"}

ChangeNext ==
    \/ IntakePut("1", NewSchedule, 2)
    \/ ReconInvoke
    \/ \E answer \in ChangeAnswers(rc_user_id) : ReconQuery(answer)
    \/ ReconDeleteOk
    \/ ReconReturn
    \/ ReconQuiet /\ rb_pc \in {"idle", "done"} /\ SweepInvoke
    \/ ReconQuiet /\ (SweepScanOk \/ SweepEvaluate \/ SweepSendOk \/ SweepReturn)
    \/ ReconQuiet /\ sw_pc = "done" /\ SweepSwitch
    \/ ReconQuiet /\ sw_pc \in {"idle", "done"} /\ RebuildInvoke
    \/ ReconQuiet /\ (RebuildListRules \/ RebuildRemoveTargets \/ RebuildDeleteRule
                       \/ RebuildScan \/ RebuildNextItem \/ RebuildPutRule
                       \/ RebuildPutTargets \/ RebuildReturn)

SpecChange == ChangeInit /\ [][ChangeNext]_vars

-----------------------------------------------------------------------------
(* Specification of the handlers around the table: the form is submitted at *)
(* any time; a Sweep, rebuilds, a Reconciliation run and the Worker Invoker *)
(* are invoked one after the other, in any order                            *)

StoreUserIds == {"1"}
StoreSchedules == {JEDNOU_DENNE, KAZDY_DEN}
Submissions == {1, 2}

\* the answers of the role authority in this specification
StoreAnswers == {RolesAnswer(<<"customer">>), HTTPError(404)}

\* no handler is in the middle of an invocation
Quiet ==
    /\ sw_pc \in {"idle", "done"}
    /\ rb_pc \in {"idle", "done"}
    /\ rc_pc \in {"idle", "done"}
    /\ wk_pc = "idle"

StoreInit ==
    /\ EvalIdle
    /\ table = {}
    /\ queue = <<>>
    /\ utc_clock = Wednesday1007utc
    /\ SweepIdle
    /\ rules = {HandMadeRule(<<"old_rule">>, {"t1", "t2"})}
    /\ rb_pc = "idle"
    /\ rb_n = 0
    /\ rb_pre = {}
    /\ rb_scan = {}
    /\ rb_names = {}
    /\ rb_rule = <<>>
    /\ rb_items = {}
    /\ rb_item = NoItem
    /\ rb_entries = <<>>
    /\ rb_k = 0
    /\ rb_name = <<>>
    /\ rb_result = NoRebuildResult
    /\ ReconIdle
    /\ SweepsIdle
    /\ WorkerIdle
    /\ RebuildsIdle
    /\ KeywordsIdle

StoreNext ==
    \/ \E u \in StoreUserIds, f \in StoreSchedules, n \in Submissions : IntakePut(u, f, n)
    \/ Quiet /\ SweepInvoke
    \/ SweepScanOk \/ SweepEvaluate \/ SweepSendOk \/ SweepReturn
    \/ Quiet /\ rb_n = 0 /\ RebuildInvoke
    \/ RebuildListRules \/ RebuildRemoveTargets \/ RebuildDeleteRule \/ RebuildScan
    \/ RebuildNextItem \/ RebuildPutRule \/ RebuildPutTargets \/ RebuildReturn
    \/ Quiet /\ ReconInvoke
    \/ \E answer \in StoreAnswers : ReconQuery(answer)
    \/ ReconDeleteOk \/ ReconReturn
    \/ Quiet /\ WorkerDeliver
    \/ WorkerInvokeOk \/ WorkerReturn \/ WorkerBatchDeleted

SpecStore == StoreInit /\ [][StoreNext]_vars

EvalDone == eval_out # Pending

-----------------------------------------------------------------------------
(* Claims about the evaluator *)

\* C2: for a schedule of one "<day> v <HH:MM>" entry with a day of the table,
\* the evaluator returns true iff the weekday is the day's table entry and the
\* hour is HH, whatever the minutes of the schedule and of the instant.
C2_DayEntryDueIffWeekdayAndHour ==
    \A d \in KnownDays, h \in ScheduleHours, m \in ScheduleMins :
        (EvalDone /\ schedule_preference = DayEntry(d, h, m))
            => eval_out = Returns(/\ current_time.weekday = day_mapping[d]
                                  /\ current_time.hour = h)

\* "Streda v 12:00" evaluated on Wednesday 12:07 is due
C2_Witness ==
    /\ EvalDone
    /\ schedule_preference = DayEntry("Streda", 12, 0)
    /\ current_time = [weekday |-> 2, hour |-> 12, minute |-> 7]
    /\ eval_out = Returns(TRUE)

\* the schedule string has the sweep's daily marker among its tokens
HasDailyMarker(s) == \E i \in 1..Len(s) : s[i] = "Jednou denne"

\* C3: for a schedule string containing the daily marker, the evaluator returns
\* true iff the hour is 12, on every weekday and whatever else the string holds.
C3_DailyDueIffNoon ==
    (EvalDone /\ HasDailyMarker(schedule_preference))
        => eval_out = Returns(current_time.hour = 12)

\* the marker followed by an entry with a malformed hour, on a Sunday at noon
C3_Witness ==
    /\ EvalDone
    /\ schedule_preference = join(SEP_COMMA, <<JEDNOU_DENNE, BadHourEntry>>)
    /\ current_time.weekday = 6 /\ current_time.hour = 12
    /\ eval_out = Returns(TRUE)

\* the (weekday, hour) tuple of a well-formed entry matches the instant
EntryMatches(e, now) ==
    \/ e = JEDNOU_DENNE /\ now.hour = 12
    \/ \E d \in KnownDays, h \in ScheduleHours, m \in ScheduleMins :
          e = DayEntry(d, h, m) /\ now.weekday = day_mapping[d] /\ now.hour = h

WellFormedEntries ==
    {JEDNOU_DENNE} \cup {DayEntry(d, h, m) : d \in KnownDays, h \in ScheduleHours,
                                            m \in ScheduleMins}

\* C4: for a ", "-separated list of several entries the due decision is the OR
\* over the entries: due iff at least one entry's tuple matches the instant.
C4_ListDueIffSomeEntryMatches ==
    \A l \in SeveralEntries :
        (/\ EvalDone
         /\ schedule_preference = join(SEP_COMMA, l)
         /\ \A i \in 1..Len(l) : l[i] \in WellFormedEntries)
            => eval_out = Returns(\E i \in 1..Len(l) : EntryMatches(l[i], current_time))

\* C5: for a "<day> v <HH:MM>" entry whose day token is not one of the seven
\* table names, the evaluator returns false at every weekday and hour.
C5_UnknownDayNeverDue ==
    \A d \in UnknownDays, h \in ScheduleHours, m \in ScheduleMins :
        (EvalDone /\ schedule_preference = DayEntry(d, h, m))
            => eval_out = Returns(FALSE)

\* "streda v 12:00" (lower case) evaluated on Wednesday at 12
C5_Witness ==
    /\ EvalDone
    /\ schedule_preference = DayEntry("streda", 12, 0)
    /\ current_time.weekday = 2 /\ current_time.hour = 12
    /\ eval_out = Returns(FALSE)

-----------------------------------------------------------------------------
(* Claims about the Scheduler Sweep *)

SweepDone == sw_pc = "done"

\* the dicts of the messages in the queue
Requests == [k \in 1..Len(queue) |-> json_loads(queue[k])]

\* due as the specification defines it: some entry of the ", "-separated list
\* has a (weekday, hour) tuple that matches the instant
SpecDue(f, now) ==
    LET entries == split(f, SEP_COMMA)
    IN  \E i \in 1..Len(entries) : EntryMatches(entries[i], now)

SpecDueItems == {r \in table : SpecDue(r.preferences.frekvence_zasilani, sw_now)}

\* C1: with exactly K of the N items due at the instant of the invocation, a
\* Sweep whose scan and whose every send succeed enqueues exactly K requests,
\* one for each due item and none for the others.
C1_EnqueuesExactlyTheDue ==
    (SweepDone /\ sw_result.statusCode # 500 /\ sw_failed = {})
        => /\ Len(queue) = Cardinality(SpecDueItems)
           /\ {Requests[k].user_id : k \in 1..Len(queue)}
                  = {r.user_id : r \in SpecDueItems}

\* the item is one the evaluator calls due at the handler's now
EvaluatorDue(r) ==
    is_scheduled_time(sw_now, r.preferences.frekvence_zasilani) = Returns(TRUE)

\* the request carries the six fields of item r
CarriesFieldsOf(d, r) ==
    /\ d.user_id = r.user_id
    /\ d.email = r.preferences.email_pro_zasilani_vysledku
    /\ d.keywords = r.preferences.klicova_slova
    /\ d.description = r.preferences.popis_firmy
    /\ d.role = r.user_role
    /\ d.frekvence_zasilani = r.preferences.frekvence_zasilani

Wednesday1207 == [weekday |-> 2, hour |-> 12, minute |-> 7]

C10_Carries ==
    /\ \A k \in 1..Len(queue) :
          /\ DOMAIN Requests[k] = {task_keys[i] : i \in 1..Len(task_keys)}
          /\ \E r \in table : EvaluatorDue(r) /\ CarriesFieldsOf(Requests[k], r)
    /\ sw_pc = "send" => \E r \in table : EvaluatorDue(r) /\ CarriesFieldsOf(sw_task, r)
    /\ \A r \in table :
          (/\ SweepDone /\ sw_result.statusCode = 200 /\ sw_failed = {}
           /\ sw_now = Wednesday1207
           /\ r.preferences.frekvence_zasilani = DayEntry("Streda", 12, 0))
              => \E k \in 1..Len(queue) :
                    /\ CarriesFieldsOf(Requests[k], r)
                    /\ \A j \in 1..Len(queue) : Requests[j].user_id = r.user_id => j = k

C10_Unchanged ==
    /\ \A k \in 1..Len(queue) : Len(queue') >= k /\ queue'[k] = queue[k]
    /\ (sw_pc = "send" /\ sw_pc' = "send") => sw_task' = sw_task

\* C10: every request the Sweep enqueues carries the user_id, email, keywords,
\* description, role and frekvence_zasilani of the one due item it was built
\* from, and is not changed after it is built; an item "Streda v 12:00"
\* swept on Wednesday 12:07 (UTC+2) yields exactly one request, with its fields.
C10_RequestCarriesItsItem == [] C10_Carries /\ [][C10_Unchanged]_vars

\* two items, both due on Wednesday 12:07, each with its own request
C10_Witness ==
    /\ SweepDone /\ sw_result.statusCode = 200
    /\ sw_now = Wednesday1207
    /\ Item("1", DayEntry("Streda", 12, 0)) \in table
    /\ Item("2", JEDNOU_DENNE) \in table
    /\ Len(queue) = 2
    /\ \E k \in 1..2 : CarriesFieldsOf(Requests[k], Item("1", DayEntry("Streda", 12, 0)))

\* a step in which the scan of line 30 is answered: either with the items of the
\* table, or with an exception, and then the handler returns 500 at once
C11_ScanStep ==
    (sw_pc = "scan" /\ sw_pc' # "scan")
        => \/ sw_pc' = "loop" /\ sw_items' \in scan(table)
           \/ /\ sw_pc' = "done"
              /\ sw_result'.statusCode = 500
              /\ sw_result'.body = <<"Failed to scan DynamoDB">>
              /\ queue' = queue

C11_Aborted ==
    sw_result.statusCode = 500 => (sw_pc = "done" /\ queue = <<>> /\ sw_sends = 0)

\* C11: when the scan of the table fails, the Sweep returns status 500 that
\* reports the scan failure, and enqueues no request in that invocation.
C11_ScanFailureAborts == [] C11_Aborted /\ [][C11_ScanStep]_vars

\* the scan failed on Wednesday 12:07 over a table with a due item
C11_Witness ==
    /\ SweepDone /\ sw_result.statusCode = 500
    /\ sw_now = Wednesday1207
    /\ Item("1", DayEntry("Streda", 12, 0)) \in table
    /\ queue = <<>>

\* C12: when the send of one due item fails, the Sweep still enqueues a request
\* for every other due item of the invocation, wherever the failing item is in
\* the scan.
C12_OtherDueItemsStillEnqueued ==
    (SweepDone /\ sw_result.statusCode # 500 /\ sw_failed # {})
        => \A r \in SpecDueItems :
              r.user_id \notin sw_failed
                  => \E k \in 1..Len(queue) : Requests[k].user_id = r.user_id

\* C28: the evaluation never raises inside the Sweep, whatever the schedule
\* string (also a "<day> v <HH:MM>" entry whose hour is not a number): a Sweep
\* whose scan succeeded ends without an exception, having evaluated every item
\* and sent a request for every item the evaluator calls due whose send did
\* not fail.
C28_EvaluationTotalInSweep ==
    (SweepDone /\ sw_result.statusCode # 500)
        => /\ sw_result.exc = "none"
           /\ \A i \in 1..Len(sw_items) :
                 (EvaluatorDue(sw_items[i]) /\ sw_items[i].user_id \notin sw_failed)
                     => \E k \in 1..Len(queue) : Requests[k].user_id = sw_items[i].user_id

\* the scan returned an item with the hour "ab" before an item that is due: the
\* invocation ended with the ValueError and nothing was sent
C28_BadHourEndsTheSweep ==
    /\ SweepDone /\ sw_result.exc = "ValueError"
    /\ Len(sw_items) = 2
    /\ sw_items[1].preferences.frekvence_zasilani = BadHourEntry
    /\ EvaluatorDue(sw_items[2])
    /\ queue = <<>>

\* C13: the count a Sweep returns is the number of requests it enqueued: the
\* items the evaluator called due whose send succeeded; items whose send
\* failed and items that were not due are not counted.
C13_CountIsEnqueued ==
    (SweepDone /\ sw_result.statusCode = 200)
        => /\ sw_result.body = <<"Messages successfully sent: ", Len(queue)>>
           /\ Len(queue) = Cardinality({r \in table : EvaluatorDue(r)}) - Cardinality(sw_failed)
           /\ \A k \in 1..Len(queue) : Requests[k].user_id \notin sw_failed

\* two due items, the send of one of them failed: the count is 1
C13_Witness ==
    /\ SweepDone /\ sw_result.statusCode = 200
    /\ Cardinality({r \in table : EvaluatorDue(r)}) = 2
    /\ Cardinality(sw_failed) = 1
    /\ sw_result.body[2] = 1

-----------------------------------------------------------------------------
(* Claims about the Rule Lifecycle Manager *)

\* the rebuild returned status 200
RebuildOk == rb_pc = "done" /\ rb_result.statusCode = 200

\* the name holds the reserved marker, in lower or upper case
HasMarker(name) == \E i \in 1..Len(name) : name[i] \in {"gregi", "Gregi", "GREGI"}

\* the rule is in the rule set (the same rule: same name, made by the same put_rule)
Present(r, rs) == \E x \in rs : x.Name = r.Name /\ x.born = r.born

\* the rules with a target whose input is {user_id: u}
RulesOf(u) == {r \in rules : \E t \in r.Targets : json_loads(t.Input).user_id = u}

\* C6: after a rebuild that returned successfully, every rule that existed
\* before it and has no marker in its name is gone from EventBridge.
C6_UnprotectedRulesGone ==
    RebuildOk => \A r \in rb_pre : ~HasMarker(r.Name) => ~Present(r, rules)

\* the second rebuild removed a rule of the first one and made a rule of the
\* same name anew
C6_Witness ==
    /\ RebuildOk
    /\ \E r \in rb_pre :
          /\ ~HasMarker(r.Name) /\ r.Targets # {} /\ r.born = 1
          /\ \E x \in rules : x.Name = r.Name /\ x.born = 2

\* C7: after a rebuild that returned successfully, every item with a user_id
\* and a non-empty frekvence_zasilani has at least one rule whose target input
\* is its user_id.
C7_EveryScheduledUserHasARule ==
    RebuildOk =>
        \A item \in table :
            (item.user_id # "" /\ item.preferences.frekvence_zasilani # <<>>)
                => RulesOf(item.user_id) # {}

\* a schedule of two entries whose two rules got the same random name: one rule
C7_Witness ==
    /\ RebuildOk /\ rb_n = 1
    /\ Item("1", StreduPatek) \in table
    /\ Cardinality(RulesOf("1")) = 1

\* C8: a rule with the marker in its name (in any case) is never deleted, and
\* its targets are never removed or changed, by any step of any rebuild: the
\* rule is still there after the step, with every target it had.
C8_ProtectedRulesUntouched ==
    [][\A r \in rules :
          HasMarker(r.Name) =>
              \E x \in rules' : /\ x.Name = r.Name /\ x.born = r.born
                                /\ r.Targets \subseteq x.Targets]_vars

\* after two rebuilds: the hand-made rule with the marker in upper case and
\* its target, and a rule the first rebuild made for the user id "gregi"
C8_Witness ==
    /\ RebuildOk /\ rb_n = 2
    /\ HandMadeRule(<<"My-", "GREGI", "-Rule">>, {"keep"}) \in rules
    /\ \E r \in rules : r.born = 1 /\ r.Name[2] = "gregi" /\ r.Targets # {}
    /\ \E r \in rb_pre : ~HasMarker(r.Name)

\* the number of ", "-separated entries of the schedules of the items of S
\* that have a user_id and a non-empty frekvence_zasilani
RECURSIVE NumEntries(_)
NumEntries(S) ==
    IF S = {} THEN 0
    ELSE LET item == CHOOSE x \in S : TRUE
             f == item.preferences.frekvence_zasilani
         IN  (IF item.user_id # "" /\ f # <<>> THEN Len(split(f, SEP_COMMA)) ELSE 0)
                 + NumEntries(S \ {item})

\* the rules the rebuild that is over has created
Created == {r \in rules : r.born = rb_n}

\* C15: a rebuild that returned successfully has created one rule per (user,
\* schedule entry), each under its own name: the rules it created are as many
\* as the schedule entries of the processed items, and each has the user_id
\* of its item as the input of its one target.
C15_OneRulePerEntry ==
    RebuildOk =>
        /\ Cardinality(Created) = NumEntries(table)
        /\ \A r \in Created :
              \E item \in table : {json_loads(t.Input).user_id : t \in r.Targets} = {item.user_id}

\* C16: in a rebuild, delete_rule is only issued for a rule whose targets have
\* been removed: when the handler is at delete_rule, the rule has no target.
C16_TargetsRemovedBeforeDelete ==
    rb_pc = "delete" => \A r \in rules : r.Name = rb_rule => r.Targets = {}

\* the handler is at delete_rule for the hand-made rule that had two targets
C16_Witness ==
    /\ rb_pc = "delete"
    /\ rb_rule = <<"old_rule">>
    /\ HandMadeRule(<<"old_rule">>, {"t1", "t2"}) \in rb_pre
    /\ \E r \in rules : r.Name = rb_rule /\ r.Targets = {}

\* the rules the rebuild manages: those without the marker in their name
Managed == {r \in rules : ~HasMarker(r.Name)}

\* the managed rules are the projection of the table: as many as the schedule
\* entries of the items, for each (user, entry) a rule with the entry's cron
\* expression and the user's target, and no rule for anything else
IsProjection ==
    /\ Cardinality(Managed) = NumEntries(table)
    /\ \A item \in table :
          (item.user_id # "" /\ item.preferences.frekvence_zasilani # <<>>) =>
              LET entries == days_with_times(item.preferences)
              IN  \A k \in 1..Len(entries) :
                     \E r \in Managed : /\ r.ScheduleExpression = cron_of_entry(entries[k])
                                         /\ r.Targets = {target(item.user_id)}
    /\ \A r \in Managed : \E item \in table : r.Targets = {target(item.user_id)}

\* every rebuild invocation that was made is over, and one was made
RebuildsOver ==
    /\ rb_pc = "done"
    /\ rb_parked.pc \in {"idle", "done"}

\* C21: with single-flight execution (no invocation takes a step while another
\* is not over) no state is reachable in which, the rebuilds being over, the
\* managed rule set is not the projection of the table or a rebuild has
\* failed on the rule set; overlapping rebuilds do reach such states
\* (C21_OverlapCorrupts).
C21_SingleFlightKeepsProjection ==
    (RebuildsOver /\ ~rb_overlap)
        => /\ IsProjection
           /\ \A a \in RebuildRuns : a.result.statusCode # 500

\* two overlapping rebuilds over one item of one entry, both returned 200, no
\* rule before them: the one (user, entry) pair has two rules
C21_OverlapCorrupts ==
    /\ RebuildsOver /\ rb_overlap
    /\ \A a \in RebuildRuns : a.result.statusCode = 200
    /\ table = {Item("1", DayEntry("Streda", 12, 0))}
    /\ Cardinality(Managed) = 2
    /\ \A r \in Managed : r.Targets = {target("1")}

\* the call the handler is at works on one rule: the removal of the targets or
\* the deletion of a listed rule without the marker, or put_rule or
\* put_targets for an entry (not list_rules, not the scan of the table)
AtOneRule ==
    \/ rb_pc = "clear" /\ \E name \in rb_names : ~is_protected(name)
    \/ rb_pc \in {"delete", "entries", "targets"}

\* a step that ends the invocation is not taken from a call that works on one rule
C31_Step == (rb_pc # "done" /\ rb_pc' = "done") => ~AtOneRule

\* C31: a failure while deleting or creating one rule does not stop the
\* rebuild: the invocation never ends at a call that works on one rule, it goes
\* on with the remaining rules and items.
C31_FailureIsPerRule == [][C31_Step]_vars

\* the first rebuild deleted one hand-made rule, failed on the other and
\* returned 500: that rule is still there with its targets, the table was
\* never scanned and its item has no rule
C31_FirstFailureEndsRebuild ==
    /\ rb_pc = "done" /\ rb_n = 1 /\ rb_result.statusCode = 500
    /\ HandMadeRule(<<"empty_rule">>, {}) \in rb_pre \ rules
    /\ HandMadeRule(<<"old_rule">>, {"t1", "t2"}) \in rules
    /\ rb_scan = {}
    /\ Item("1", StreduPatek) \in table
    /\ RulesOf("1") = {}

\* C32: whatever rebuilds failed partway before it, a rebuild that returned
\* successfully (single flight) leaves no managed rule that an earlier
\* rebuild created, and every item with a user_id and a non-empty
\* frekvence_zasilani has rules again: at least one, each created by this
\* rebuild (or protected by its name).
C32_SuccessfulRebuildRepairs ==
    RebuildOk =>
        /\ \A r \in Managed : r.born \notin 1..(rb_n - 1)
        /\ \A item \in table :
              (item.user_id # "" /\ item.preferences.frekvence_zasilani # <<>>)
                  => /\ RulesOf(item.user_id) # {}
                     /\ \A r \in RulesOf(item.user_id) \cap Managed : r.born = rb_n

\* the first rebuild failed between put_rule and put_targets and left a rule
\* without target; the second one returned successfully: that rule is gone
\* and the two entries of the item have their two rules, made by the second
C32_Witness ==
    /\ RebuildOk /\ rb_n = 2
    /\ \E r \in rb_pre : r.born = 1 /\ r.Targets = {} /\ ~HasMarker(r.Name)
    /\ table = {Item("1", StreduPatek)}
    /\ Cardinality(RulesOf("1")) = 2
    /\ \A r \in Managed : r.born = 2

\* C35: every rule a rebuild creates is a managed rule, for every user_id: its
\* name does not hold the reserved marker, and after the next rebuild that
\* returned successfully it is gone, so that the rules made by rebuilds do
\* not accumulate.
C35_CreatedRulesAreManaged ==
    /\ \A r \in rules : r.born > 0 => ~HasMarker(r.Name)
    /\ RebuildOk => \A r \in rules : r.born \notin 1..(rb_n - 1)

\* the user_id "gregi" with a schedule of one entry: after two rebuilds that
\* returned successfully the rule of the first is still there beside the rule
\* of the second
C35_RulesOfMarkedUserPileUp ==
    /\ RebuildOk /\ rb_n = 2
    /\ table = {Item("gregi", KAZDY_DEN)}
    /\ Cardinality(RulesOf("gregi")) = 2
    /\ \E r \in rules : r.born = 1 /\ is_protected(r.Name)
    /\ \E r \in rules : r.born = 2 /\ is_protected(r.Name)

-----------------------------------------------------------------------------
(* Claims about the Reconciliation Sweeper *)

HasRole(answer, role) == \E i \in 1..Len(answer.roles) : answer.roles[i] = role

\* the answers the claim names as the ones to delete on: 404, or a role list
\* with neither 'customer' nor 'administrator'
CallsForDeletion(answer) ==
    \/ answer.kind = "HTTPError" /\ answer.code = 404
    \/ /\ answer.kind = "roles"
       /\ ~HasRole(answer, "customer") /\ ~HasRole(answer, "administrator")

ItemsOf(t, key) == {r \in t : r.user_id = key}

\* C9: for a user id of the checked range, the handler deletes the item iff the
\* authority answers 404 or a role list with neither 'customer' nor
\* 'administrator': on those answers delete_item is called, and the item is
\* gone unless delete_item itself raised; on a role list with 'customer' or
\* 'administrator' and on any other error delete_item is not called and the
\* item is as it was.
C9_DeletedIffUnknownOrUnauthorized ==
    \A i \in DOMAIN rc_log :
        LET e == rc_log[i] IN
        /\ (e.delete # "none") <=> CallsForDeletion(e.answer)
        /\ e.delete = "ok" => ItemsOf(table, str(i)) = {}
        /\ e.delete # "ok" => /\ ItemsOf(table, str(i)) = ItemsOf(rc_table0, str(i))
                              /\ ItemsOf(table, str(i)) # {}

\* one run: user 1 answered 500 and kept, user 99 answered 404 and deleted
C9_Witness ==
    /\ rc_pc = "done" /\ rc_result.statusCode = 200
    /\ DOMAIN rc_log = {1, 99}
    /\ rc_log[1] = [answer |-> HTTPError(500), delete |-> "none"]
    /\ rc_log[99] = [answer |-> HTTPError(404), delete |-> "ok"]
    /\ ItemsOf(table, "1") # {} /\ ItemsOf(table, "99") = {}

\* the integers a..b in rising order
Ascending(a, b) == [i \in 1..(b - a + 1) |-> a + i - 1]

\* C25: a run that has returned asked the role authority about every integer
\* user id from 1 to 100 inclusive, each exactly once.
C25_QueriesOneToHundred ==
    (rc_pc = "done" /\ rc_result.statusCode = 200) => rc_queries = Ascending(1, 100)

\* a run over a table with an item of user 100 has returned: the ids asked are
\* 1 to 99, and the item of user 100 is as it was
C25_StopsAt99 ==
    /\ rc_pc = "done" /\ rc_result.statusCode = 200
    /\ rc_queries = Ascending(1, 99)
    /\ ItemsOf(rc_table0, "100") # {}
    /\ ItemsOf(table, "100") = ItemsOf(rc_table0, "100")

\* C29: a run that is over has returned, having asked about every id of the
\* range of its loop; an id whose lookup failed or whose delete_item raised
\* (on the 404 path as well) has its item as it was.
C29_RunProcessesEveryId ==
    /\ rc_pc = "done" => /\ rc_result = [statusCode |-> 200, exc |-> "none"]
                         /\ rc_queries = Ascending(RangeStart, RangeStop - 1)
    /\ \A i \in DOMAIN rc_log :
          (rc_log[i].delete = "raised" \/ ~CallsForDeletion(rc_log[i].answer))
              => ItemsOf(table, str(i)) = ItemsOf(rc_table0, str(i))

\* the authority answered 404 for user 1 and delete_item raised: the run is
\* over with the exception, user 2 and the ids after it were never asked about
C29_DeleteRaisedOn404 ==
    /\ rc_pc = "done" /\ rc_result.exc = "ClientError"
    /\ rc_queries = <<1>>
    /\ DOMAIN rc_log = {1}
    /\ rc_log[1] = [answer |-> HTTPError(404), delete |-> "raised"]
    /\ ItemsOf(table, "99") # {}

-----------------------------------------------------------------------------
(* Claims about the Worker Invoker and the dispatch path *)

\* the payload {"user_id": u}
UserIdPayload(u) == <<(<<"user_id", u>>)>>

\* the invocations the running Worker Invoker invocation has issued so far are
\* the last ones of the log: one for each record it went through, in order,
\* each with the user_id of its record and nothing else
C17_IssuedSoFar ==
    wk_pc \in {"loop", "done"} =>
        LET n == wk_i - 1
            before == Len(invocations) - n
        IN  /\ before >= 0
            /\ \A k \in 1..n :
                  invocations[before + k] = UserIdPayload(json_loads(wk_records[k]).user_id)
            /\ (wk_result.statusCode = 200) => n = Len(wk_records)

\* a step of the Worker Invoker issues at most one invocation, and only when
\* it moves on by one record
C17_Step ==
    \/ invocations' = invocations /\ (wk_pc' = "loop" /\ wk_pc = "loop" => wk_i' = wk_i)
    \/ /\ wk_pc = "loop" /\ wk_pc' = "loop" /\ wk_i' = wk_i + 1
       /\ Len(invocations') = Len(invocations) + 1

\* C17: for every batch, the Worker Invoker issues one asynchronous invocation
\* of the Search Worker per message, with the payload {user_id} of that
\* message; messages are not combined, and the handler goes on to the next
\* message once the invocation is accepted.
C17_OneInvocationPerMessage == [] C17_IssuedSoFar /\ [][C17_Step]_vars

\* a batch of the two users' messages was handed off: two invocations
C17_Witness ==
    /\ wk_pc = "done" /\ wk_result.statusCode = 200
    /\ Len(wk_records) = 2 /\ wk_fails = 0
    /\ {invocations[k] : k \in 1..Len(invocations)} = {UserIdPayload("1"), UserIdPayload("2")}
    /\ Len(invocations) = 2

\* C30: an invocation of the Worker Invoker that is over has gone through
\* every message of its batch and returned 200, also when lambda_client.invoke
\* failed for one of them: the batch is not failed for one message.
C30_BatchSurvivesFailedInvoke ==
    wk_pc = "done" => (wk_i > Len(wk_records) /\ wk_result = [statusCode |-> 200, exc |-> "none"])

\* a batch of two: invoke raised for the first message, the invocation ended
\* with the exception and the Search Worker was not invoked for the second
C30_FailedInvokeEndsBatch ==
    /\ wk_pc = "done" /\ wk_result.exc = "ClientError"
    /\ Len(wk_records) = 2 /\ wk_i = 1
    /\ invocations = <<>>

Enqueued(u) == \E k \in 1..Len(sw_log) : sw_log[k].user_id = u
Invoked(u)  == \E j \in 1..Len(invocations) : invocations[j] = UserIdPayload(u)

\* C18: every request that was enqueued is eventually followed by at least one
\* invocation of the Search Worker with its user_id, when the queue delivers a
\* failed batch again and invocations do not fail for ever.
C18_AtLeastOnce == \A u \in DispatchUserIds : Enqueued(u) ~> Invoked(u)

\* user 2 was invoked once and, after a failed batch came back, user 1 twice
C18_Witness ==
    /\ Enqueued("1") /\ Enqueued("2")
    /\ wk_fails > 0 /\ wk_pc = "idle" /\ queue = <<>>
    /\ Cardinality({j \in 1..Len(invocations) : invocations[j] = UserIdPayload("1")}) = 2
    /\ Invoked("2")

-----------------------------------------------------------------------------
(* Claims about several invocations of the Sweep *)

\* the messages invocation id sent for user u
SentBy(id, u) == {k \in 1..Len(sw_log) : sw_log[k].id = id /\ sw_log[k].user_id = u}

\* the messages sent for user u by the invocations of clock hour h
SentInSlot(h, u) == {k \in 1..Len(sw_log) : sw_log[k].slot = h /\ sw_log[k].user_id = u}

\* no two invocations in the same clock hour
OncePerHour ==
    \A a, b \in SweepRuns : (a.id # 0 /\ b.id # 0 /\ a.id # b.id) => a.slot # b.slot

\* C19: when the Sweep is invoked at most once per clock hour, at most one
\* request is enqueued for a user in an hour slot (an invocation sends at most
\* one message per user, whatever the hour).
C19_AtMostOnePerSlot ==
    /\ \A a \in SweepRuns, u \in SweepsUserIds : Cardinality(SentBy(a.id, u)) <= 1
    /\ OncePerHour =>
          \A h \in 0..MaxHours, u \in SweepsUserIds : Cardinality(SentInSlot(h, u)) <= 1

\* one invocation at 11:37 and one at 12:07: user 1 ("Streda v 11:00") has its
\* one request from the first hour, user 2 (daily) its one from the second
C19_Witness ==
    /\ \A a \in SweepRuns : a.pc = "done" /\ a.result.statusCode = 200
    /\ OncePerHour
    /\ Item("1", DayEntry("Streda", 11, 0)) \in table /\ Item("2", JEDNOU_DENNE) \in table
    /\ Cardinality(SentInSlot(0, "1")) = 1 /\ Cardinality(SentInSlot(1, "2")) = 1
    /\ Len(sw_log) = 2

\* C20: two invocations in the same clock hour, whose scans and sends all
\* succeed, each enqueue one request for every item that is due at their now
\* and none for the others, so a due user gets two requests.
C20_EachRunEnqueuesEveryDue ==
    (/\ \A a \in SweepRuns : a.pc = "done" /\ a.result.statusCode = 200 /\ a.failed = {}
     /\ ~OncePerHour)
        => \A a \in SweepRuns, r \in table :
              Cardinality(SentBy(a.id, r.user_id))
                  = IF SpecDue(r.preferences.frekvence_zasilani, a.now) THEN 1 ELSE 0

-----------------------------------------------------------------------------
(* Claims about the table *)

\* a step that changes the table is no step of the Sweep, of the rebuild or of
\* the Worker Invoker; it is a put_item of the intake handler, which replaces
\* the whole item of its key, or a delete_item of the Reconciliation run,
\* which removes the whole item of its key
C14_Step ==
    table' # table =>
        /\ sweep_vars' = sweep_vars /\ sw_log' = sw_log /\ queue' = queue
        /\ rebuild_vars' = rebuild_vars
        /\ worker_vars' = worker_vars
        /\ \/ /\ recon_vars' = recon_vars
              /\ \E item \in table' : table' = put_item(table, item)
           \/ /\ rc_pc \in {"delete200", "delete404"}
              /\ table' = delete_item(table, str(rc_user_id))

\* C14: the Sweep, the rebuild and the Worker Invoker never create, modify or
\* delete an item of the table; an item is only written as a whole by the
\* intake handler or deleted as a whole by the Reconciliation run.
C14_TableOnlyByIntakeAndRecon == [][C14_Step]_vars

\* the Sweep has sent, the rebuild has made a rule, the Worker Invoker has
\* invoked, the Reconciliation run has deleted the item, and the form was
\* submitted again
C14_Witness ==
    /\ sw_log # <<>> /\ invocations # <<>>
    /\ \E r \in rules : r.born = 1
    /\ 1 \in DOMAIN rc_log /\ rc_log[1].delete = "ok"
    /\ FormItem("1", KAZDY_DEN, 2) \in table

-----------------------------------------------------------------------------
(* Claims about a change of the table *)

\* every request sent carries the user_id and the schedule of an item of the
\* scan of the invocation that sent it
C22_SentFromItsScan ==
    \A k \in 1..Len(sw_log) :
        \E a \in SweepRuns :
            /\ a.id = sw_log[k].id
            /\ \E i \in 1..Len(a.items) :
                  /\ a.items[i].user_id = Requests[k].user_id
                  /\ a.items[i].preferences.frekvence_zasilani = Requests[k].frekvence_zasilani

\* after a rebuild that returned successfully every managed rule is the rule
\* of an entry of the schedule of an item of that rebuild's scan
C22_RulesFromItsScan ==
    RebuildOk =>
        \A r \in Managed :
            \E item \in rb_scan :
                LET entries == days_with_times(item.preferences)
                IN  /\ item.user_id # ""
                    /\ r.Targets = {target(item.user_id)}
                    /\ \E k \in 1..Len(entries) : r.ScheduleExpression = cron_of_entry(entries[k])

\* a scan answers with the items the table holds when it is made, and an
\* invocation keeps the answer of its scan as it is
C22_Step ==
    /\ (sw_pc = "scan" /\ sw_pc' = "loop") => sw_items' \in scan(table)
    /\ (sw_id' = sw_id /\ sw_pc # "scan") => sw_items' = sw_items
    /\ (rb_pc = "clear" /\ rb_pc' = "items") => rb_scan' = table
    /\ (rb_n' = rb_n /\ rb_pc # "clear") => rb_scan' = rb_scan

\* C22: once an item is deleted or its schedule overwritten, a Sweep that scans
\* after the change sends nothing for the removed user or the old schedule,
\* and after a successful rebuild that scans after the change no managed rule
\* is left for the removed user or for an entry of the old schedule: what an
\* invocation sends and the managed rules a rebuild leaves come from the
\* items of its own scan, which are the items the table held at that moment.
C22_NoStaleState ==
    [] (C22_SentFromItsScan /\ C22_RulesFromItsScan) /\ [][C22_Step]_vars

\* the first Sweep sent the old schedule, the first rebuild made its rule; the
\* form was submitted again and the second Sweep sent the new schedule; the
\* Reconciliation run deleted the item and the second rebuild left no rule
C22_Witness ==
    /\ Len(sw_log) = 2
    /\ Requests[1].frekvence_zasilani = OldSchedule
    /\ Requests[2].frekvence_zasilani = NewSchedule
    /\ 1 \in DOMAIN rc_log /\ rc_log[1].delete = "ok"
    /\ table = {}
    /\ RebuildOk /\ rb_n = 2
    /\ \E r \in rb_pre : r.ScheduleExpression = cron_of_entry(OldSchedule)
    /\ rules = {}

\* no two items of the table have the same user_id
C26_OnePerUser == \A r1, r2 \in table : r1.user_id = r2.user_id => r1 = r2

\* an item that has just been written is all the table holds for its user_id
C26_Replaces == \A item \in table' \ table : ItemsOf(table', item.user_id) = {item}

\* C26: whatever the intake writes and the Reconciliation deletions, the table
\* holds at most one item per user_id; an intake write for a user_id that has
\* an item replaces the whole item.
C26_AtMostOneItemPerUser == [] C26_OnePerUser /\ [][C26_Replaces]_vars

\* no Reconciliation run so far; a request was sent for the item of the first
\* submission, and the table now holds the item of the second submission only
C26_Witness ==
    /\ rc_pc = "idle"
    /\ \E k \in 1..Len(queue) : Requests[k].keywords = <<"klicova_slova", "1", 1>>
    /\ table = {FormItem("1", KAZDY_DEN, 2)}

\* the users invocation a sent a request for
SentUsers(a) == {sw_log[k].user_id : k \in {j \in 1..Len(sw_log) : sw_log[j].id = a.id}}

\* the users whose item in the scan of invocation a is due at its now
DueInScan(a) ==
    {a.items[i].user_id : i \in {j \in 1..Len(a.items) :
        is_scheduled_time(a.now, a.items[j].preferences.frekvence_zasilani) = Returns(TRUE)}}

\* an invocation that is over has sent for the users due in its scan at its now
C33_FromScanAndNow ==
    \A a \in SweepRuns : a.pc = "done" => SentUsers(a) = DueInScan(a)

\* the now of an invocation is the clock at its start and its scan is the
\* table at the moment of the scan
C33_Step ==
    /\ (sw_pc = "idle" /\ sw_pc' = "scan") => sw_now' = now_utc_plus_2(utc_clock)
    /\ (sw_pc = "scan" /\ sw_pc' = "loop") => sw_items' \in scan(table)

\* C33: the users an invocation of the Sweep dispatches are determined by the
\* items of the table at its scan and by its own now, whatever earlier
\* invocations evaluated: a schedule overwritten before a tick is the one
\* that tick uses.
C33_NoScheduleStateBetweenTicks == [] C33_FromScanAndNow /\ [][C33_Step]_vars

\* two ticks at 11:37: the first sent for user 1, whose schedule was due at 11;
\* the schedule was overwritten with the daily one and the second sent nothing
C33_Witness ==
    /\ \A a \in SweepRuns : a.pc = "done" /\ a.now.hour = 11
    /\ Len(sw_log) = 1 /\ sw_log[1].id = 1
    /\ Requests[1].frekvence_zasilani = DayEntry("Streda", 11, 0)
    /\ \E a \in SweepRuns : a.id = 2 /\ a.items = <<FormItem("1", JEDNOU_DENNE, 1)>>
    /\ table = {FormItem("1", JEDNOU_DENNE, 1)}

-----------------------------------------------------------------------------
(* Claims about the two paths of a schedule string *)

\* C23: an item whose schedule string is empty or unparseable (neither a daily
\* marker nor a "<day> v <HH:MM>" entry) never has a request sent for it by
\* the Sweep, and has no rule after a rebuild that returned successfully.
C23_NoDispatchNoRule ==
    /\ \A k \in 1..Len(queue) :
          Requests[k].frekvence_zasilani \notin {<<>>} \cup Unparseable
    /\ RebuildOk =>
          \A item \in table :
              item.preferences.frekvence_zasilani \in {<<>>} \cup Unparseable
                  => RulesOf(item.user_id) = {}

\* the word "nikdy" as the whole schedule string: the rebuild returned
\* successfully and the user has a rule with the default cron expression
C23_UnparseableGetsRule ==
    /\ RebuildOk
    /\ table = {Item("1", <<"nikdy">>)}
    /\ \E r \in rules : r.Targets = {target("1")} /\ r.ScheduleExpression = DefaultCron

\* the rule of the entry at which the rebuild is has just been put with the
\* default cron expression, if the entry's day name is in neither table
C24_PutStep ==
    (rb_pc = "entries" /\ rb_pc' = "targets" /\ rb_entries[rb_k] \in UnknownDayEntries)
        => \E r \in rules' : r.Name = rb_name' /\ r.ScheduleExpression = DefaultCron

\* no request is sent for an item whose schedule is such an entry; after a
\* rebuild that returned successfully the item has its one rule, with the
\* default cron expression
C24_State ==
    /\ \A k \in 1..Len(queue) : Requests[k].frekvence_zasilani \notin UnknownDayEntries
    /\ RebuildOk =>
          \A item \in table :
              item.preferences.frekvence_zasilani \in UnknownDayEntries
                  => /\ Cardinality(RulesOf(item.user_id)) = 1
                     /\ \A r \in RulesOf(item.user_id) : r.ScheduleExpression = DefaultCron

\* C24: for a "<day> v <HH:MM>" entry with an unrecognized day name the Sweep
\* never sends a request, while the rebuild creates a rule for it with the
\* default catch-all cron expression.
C24_UnknownDayRuleButNoDispatch == [] C24_State /\ [][C24_PutStep]_vars

\* "streda v 12:00" (lower case) on Wednesday 12:07: the Sweep returned
\* without a request for the user, the rebuild made the catch-all rule
C24_Witness ==
    /\ SweepDone /\ sw_result.statusCode = 200 /\ sw_now = Wednesday1207
    /\ RebuildOk
    /\ table = {Item("1", DayEntry("streda", 12, 0))}
    /\ queue = <<>>
    /\ \E r \in rules : r.Targets = {target("1")} /\ r.ScheduleExpression = DefaultCron

\* the evaluator treats the schedule string as daily: it is due at the daily
\* hour on every weekday
SweepDaily(f) ==
    \A wd \in 0..6 :
        is_scheduled_time([weekday |-> wd, hour |-> DailyHour, minute |-> 0], f) = Returns(TRUE)

\* C34: the two paths classify an entry the same way: after a rebuild that
\* returned successfully, the rule of an item whose schedule is one entry has
\* the cron expression of the lifecycle's daily marker iff the evaluator of
\* the Sweep treats the entry as daily, and no request is ever missing for an
\* item with such a rule when a Sweep at the daily hour is over.
C34_SameClassification ==
    /\ RebuildOk =>
          \A item \in table :
              ~contains(item.preferences.frekvence_zasilani, SEP_COMMA) =>
                  \A r \in RulesOf(item.user_id) :
                      (r.ScheduleExpression = DailyCron)
                          <=> SweepDaily(item.preferences.frekvence_zasilani)
    /\ (RebuildOk /\ SweepDone /\ sw_now.hour = DailyHour) =>
          \A item \in table :
              (\E r \in RulesOf(item.user_id) : r.ScheduleExpression = DailyCron)
                  => \E k \in 1..Len(queue) : Requests[k].user_id = item.user_id

\* the schedule "Kazdy den": the rebuild made the rule of the daily marker,
\* and the Sweep at 12:07 is over without a request for the user
C34_DailyRuleNeverDue ==
    /\ RebuildOk
    /\ SweepDone /\ sw_result.statusCode = 200 /\ sw_now = Wednesday1207
    /\ table = {Item("1", KAZDY_DEN)}
    /\ \E r \in rules : r.Targets = {target("1")} /\ r.ScheduleExpression = DailyCron
    /\ queue = <<>>
    /\ ~SweepDaily(KAZDY_DEN)

-----------------------------------------------------------------------------
(* Claims about the keyword list *)

\* a is b with some of its tokens left out
RECURSIVE IsSubsequence(_, _)
IsSubsequence(a, b) ==
    IF a = <<>> THEN TRUE
    ELSE IF b = <<>> THEN FALSE
    ELSE IF Head(a) = Head(b) THEN IsSubsequence(Tail(a), Tail(b))
    ELSE IsSubsequence(a, Tail(b))

\* the letters and words of s, in their order
Letters(s) == SelectSeq(s, LAMBDA c : c \notin {" ", ",", ";", "|"})

RECURSIVE Flatten(_)
Flatten(l) == IF l = <<>> THEN <<>> ELSE Head(l) \o Flatten(Tail(l))

\* C27: the keyword list derived from a keyword string has at most 20
\* entries, its keywords come in the order in which they appear in the string,
\* and none of them is empty after trimming.
C27_KeywordList ==
    kw_pc = "done" =>
        /\ Len(keywords) <= 20
        /\ IsSubsequence(Letters(Flatten(keywords)), Letters(keyword_string))
        /\ \A i \in 1..Len(keywords) :
              /\ strip(keywords[i]) # <<>>
              /\ \A j \in 1..Len(keywords[i]) : keywords[i][j] \notin {",", ";", "|"}

\* a list of 22 words: the first 20 are returned, in their order
C27_Witness ==
    /\ kw_pc = "done"
    /\ Len(Letters(keyword_string)) = 22
    /\ keywords = [i \in 1..20 |-> <<WordTable[i]>>]

====
